---- MODULE Spec2Model ----
(***************************************************************************)
(* Progressive accumulation engine of the rt path tracer.                  *)
(*                                                                         *)
(* Two versions of the engine are in the repository: the library's         *)
(* window.rs (render_with_preview / render_thread) and the older binary    *)
(* main.rs (window_preview / render_thread).  They differ in the order of  *)
(* the work list (main.rs shuffles it) and in the check of the             *)
(* cancellation flag after a pass (only window.rs has it).  The variable   *)
(* prog says which of the two runs.                                        *)
(*                                                                         *)
(* Colour channels are f32 in the code.  Here a channel value is a         *)
(* rational in units of 1/510 (half a step of a byte), with exact          *)
(* arithmetic: a byte b read back as b / 255.0 is 2 * b units.             *)
(***************************************************************************)
EXTENDS Integers, Sequences, FiniteSets, TLC

\* ---------------------------------------------------------------- bounds
\* WIDTH * HEIGHT, 800 * 600 in window.rs:29-30: the model renders a tiny image
NumPixels == 2
\* size of rayon's thread pool
NumWorkers == 2
\* number of passes of num_samples_at_pass the model runs
NumPasses == 2

Pixels == 0..(NumPixels - 1)
Workers == 1..NumWorkers
BufIndex == 0..(4 * NumPixels - 1)

\* The radiance estimates render_pixel returns, channels in units of 1/510:
\* black (camera.rs:182) or the sky's (0.5, 0.7, 1.0) (camera.rs:191).  The
\* scene and the random source fix the estimate of a pixel in a pass; a run
\* has one of two such tapes, which between them give every pixel either
\* estimate in every pass.
Tapes ==
    {[p \in Pixels, k \in 1..NumPasses |->
         IF (p + k + ph) % 2 = 0 THEN <<0, 0, 0>> ELSE <<255, 357, 510>>] : ph \in 0..1}

\* ------------------------------------------------------- pass schedule
\* window.rs:233-247: the first entries of num_samples_at_pass
num_samples_at_pass == <<1, 2, 4, 8, 8, 16, 16, 32, 32, 64>>

RECURSIVE ScanSum(_, _)
ScanSum(s, k) == IF k = 0 THEN 0 ELSE ScanSum(s, k - 1) + s[k]

\* window.rs:248-254: running total of the samples per pixel
num_samples_total == [k \in 1..Len(num_samples_at_pass) |-> ScanSum(num_samples_at_pass, k)]

\* ------------------------------------------------------------ work list
\* window.rs:230: array::from_fn(|i| i as u32)
RenderPixelsDup(i) == i \div 2
RenderPixelsAt(i) == i

IdentityList == [k \in 1..NumPixels |-> RenderPixelsAt(k - 1)]

\* main.rs:187-192: the list after shuffle, any permutation of the identity
ShufflesWithRepeats == [1..NumPixels -> Pixels]
Shuffles == {s \in [1..NumPixels -> Pixels] : \A p \in Pixels : \E k \in 1..NumPixels : s[k] = p}

\* ------------------------------------------------------ colour encoding
Min(a, b) == IF a < b THEN a ELSE b

\* Vec3Ext::as_rgb_linear for one channel of value num/den units:
\* (x * 255.999).round() as u8, the encoding of as_rgb (vec3_ext.rs:39-42)
\* without the gamma step; `as u8` saturates.  255.999 / 510 = 85333 / 170000.
AsRgbLinear(num, den) == Min(255, (2 * num * 85333 + 170000 * den) \div (2 * 170000 * den))

\* sqrt(v / 255) in units, rounded down, for every byte v
GammaTable ==
    [v \in 0..255 |-> CHOOSE k \in 0..510 : k * k <= v * 1020 /\ (k + 1) * (k + 1) > v * 1020]

\* linear_to_gamma for a channel byte v
LinearToGamma(v) == GammaTable[v]

\* as_rgb_gamma_string for one channel byte read back from the copy
AsRgbGamma(v) == AsRgbLinear(LinearToGamma(v), 1)

\* camera.rs:195-204: render_pixel traces the samples 0..num_samples-1
SampleIndices(num_samples) == 0..(num_samples - 1)

\* ------------------------------------------------------------ scalars
\* A Float is modelled as an exact rational [n, d] in lowest terms with
\* d > 0.  d = 0 is a value no real number has: 0/0 is NaN, 1/0 and -1/0
\* are the infinities.  The operations are those of the reals, and of IEEE
\* 754 where a NaN or an infinity is an operand.
Floats == [n : Int, d : Int]
Vecs == Floats \X Floats \X Floats

Abs[x \in Int] == IF x < 0 THEN -x ELSE x

Gcd[a \in Int, b \in Int] == IF b = 0 THEN a ELSE Gcd[b, a % b]

Rat[n \in Int, d \in Int] ==
    IF d = 0
    THEN [n |-> IF n > 0 THEN 1 ELSE IF n < 0 THEN -1 ELSE 0, d |-> 0]
    ELSE LET g == Gcd[Abs[n], Abs[d]]
             s == IF d < 0 THEN -1 ELSE 1
         IN [n |-> s * (n \div g), d |-> s * (d \div g)]

I(x) == [n |-> x, d |-> 1]
NaN == [n |-> 0, d |-> 0]
Infinity == [n |-> 1, d |-> 0]

IsNaN[a \in Floats] == a.n = 0 /\ a.d = 0
IsFinite[a \in Floats] == a.d # 0

\* the sum of two infinities of one sign is that infinity
Add[a \in Floats, b \in Floats] ==
    IF a.d = 0 /\ b.d = 0 THEN (IF a.n = b.n THEN a ELSE NaN)
    ELSE Rat[a.n * b.d + b.n * a.d, a.d * b.d]
Neg[a \in Floats] == [n |-> -a.n, d |-> a.d]
Sub[a \in Floats, b \in Floats] == Add[a, Neg[b]]
Mul[a \in Floats, b \in Floats] == Rat[a.n * b.n, a.d * b.d]
Div[a \in Floats, b \in Floats] == Rat[a.n * b.d, a.d * b.n]

\* every comparison with a NaN is false; numbers of different sign or with
\* different integer parts are compared without a product
Lt[a \in Floats, b \in Floats] ==
    /\ ~IsNaN[a] /\ ~IsNaN[b]
    /\ IF a.d = 0 /\ b.d = 0 THEN a.n < b.n
       ELSE IF a.n < 0 /\ b.n >= 0 THEN TRUE
       ELSE IF a.n >= 0 /\ b.n <= 0 THEN FALSE
       ELSE IF a.d # 0 /\ b.d # 0 /\ a.n \div a.d # b.n \div b.d
            THEN a.n \div a.d < b.n \div b.d
       ELSE a.n * b.d < b.n * a.d
Le[a \in Floats, b \in Floats] ==
    /\ ~IsNaN[a] /\ ~IsNaN[b]
    /\ IF a.d = 0 /\ b.d = 0 THEN a.n <= b.n
       ELSE IF a.n <= 0 /\ b.n >= 0 THEN TRUE
       ELSE IF a.n > 0 /\ b.n <= 0 THEN FALSE
       ELSE IF a.d # 0 /\ b.d # 0 /\ a.n \div a.d # b.n \div b.d
            THEN a.n \div a.d < b.n \div b.d
       ELSE a.n * b.d <= b.n * a.d
\* f32::abs
FAbs[a \in Floats] == [n |-> Abs[a.n], d |-> a.d]

\* f32::min, f32::max: the other operand if one is NaN
MinF[a \in Floats, b \in Floats] == IF IsNaN[a] THEN b ELSE IF Lt[b, a] THEN b ELSE a
MaxF[a \in Floats, b \in Floats] == IF IsNaN[a] THEN b ELSE IF Lt[a, b] THEN b ELSE a

\* the largest k of lo..hi with k * k <= n
RootBetween[lo \in Nat, hi \in Nat, n \in Nat] ==
    IF lo = hi THEN lo
    ELSE IF ((lo + hi + 1) \div 2) * ((lo + hi + 1) \div 2) <= n
         THEN RootBetween[(lo + hi + 1) \div 2, hi, n]
         ELSE RootBetween[lo, ((lo + hi + 1) \div 2) - 1, n]

\* f32::sqrt: NaN for a NaN or a negative number.  The inputs of the model
\* are chosen so that every root taken of a number is exact.
Sqrt[a \in Floats] ==
    IF IsNaN[a] \/ a.n < 0 THEN NaN
    ELSE IF a.d = 0 THEN Infinity
    ELSE Rat[CHOOSE k \in {RootBetween[0, 46340, a.n * a.d]} : k * k = a.n * a.d, a.d]

\* Range<Float>::contains: start <= t < end
RangeContains(range, t) == Le[range.start, t] /\ Lt[t, range.end]

\* ------------------------------------------------------------ vectors
Vec(x, y, z) == <<I(x), I(y), I(z)>>
VAdd[u \in Vecs, v \in Vecs] == <<Add[u[1], v[1]], Add[u[2], v[2]], Add[u[3], v[3]]>>
VSub[u \in Vecs, v \in Vecs] == <<Sub[u[1], v[1]], Sub[u[2], v[2]], Sub[u[3], v[3]]>>
VNeg[u \in Vecs] == <<Neg[u[1]], Neg[u[2]], Neg[u[3]]>>
VScale[u \in Vecs, s \in Floats] == <<Mul[u[1], s], Mul[u[2], s], Mul[u[3], s]>>
VDiv[u \in Vecs, s \in Floats] == <<Div[u[1], s], Div[u[2], s], Div[u[3], s]>>
ComponentMul[u \in Vecs, v \in Vecs] == <<Mul[u[1], v[1]], Mul[u[2], v[2]], Mul[u[3], v[3]]>>
Dot[u \in Vecs, v \in Vecs] == Add[Add[Mul[u[1], v[1]], Mul[u[2], v[2]]], Mul[u[3], v[3]]]
Cross[u \in Vecs, v \in Vecs] ==
    <<Sub[Mul[u[2], v[3]], Mul[u[3], v[2]]],
      Sub[Mul[u[3], v[1]], Mul[u[1], v[3]]],
      Sub[Mul[u[1], v[2]], Mul[u[2], v[1]]]>>
NormSquared[u \in Vecs] == Dot[u, u]
Normalize[u \in Vecs] == VDiv[u, Sqrt[NormSquared[u]]]
VIsFinite[u \in Vecs] == IsFinite[u[1]] /\ IsFinite[u[2]] /\ IsFinite[u[3]]

\* Ray::at
RayAt(ray, t) == VAdd[ray.origin, VScale[ray.direction, t]]

\* ------------------------------------------------------------- shapes
\* Float::EPSILON of camera.rs:19 (Float = f32) is 2^-23
EpsilonDen == 8388608
EPSILON == Rat[1, EpsilonDen]

\* Option<Intersection>
None == [some |-> FALSE]
Some(point, normal, t, material, is_front_face, uv) ==
    [some |-> TRUE, point |-> point, normal |-> normal, t |-> t,
     material |-> material, is_front_face |-> is_front_face, uv |-> uv]

\* hittable.rs:272-280: Sphere::new, facing the x axis
SphereNew(center, radius, material) ==
    [kind |-> "Sphere", center |-> center, radius |-> MaxF[radius, I(0)],
     material |-> material, front_direction |-> Vec(1, 0, 0)]

\* hittable.rs:184-208: Triangle::new_with_uv
TriangleNewWithUv(a, b, c, uv_a, uv_b, uv_c, material) ==
    LET ab == Normalize[VSub[b, a]]
        ac == Normalize[VSub[c, a]]
    IN [kind |-> "Triangle", a |-> a, b |-> b, c |-> c,
        uv_a |-> uv_a, uv_b |-> uv_b, uv_c |-> uv_c,
        normal |-> Normalize[Cross[ab, ac]], material |-> material]

\* intersection.rs:38-40
IsFrontFace(ray, outward_normal) == Lt[Dot[ray.direction, outward_normal], I(0)]

\* The angles of a finite point are not rational: the model keeps of a
\* finite angle only that it is not NaN.
FiniteAngle == I(0)

\* hittable.rs:370-406 for a sphere facing the x axis (pitch = yaw = 0, the
\* rotation is the identity matrix): v = acos(-z) / PI, u = phi / TAU.  The
\* product of the matrix with a point that has a NaN or infinite component
\* is NaN in every component, and acos is NaN outside [-1, 1].
UnitSphereUvFacing(point, face_dir) ==
    IF ~VIsFinite[point] THEN <<NaN, NaN>>
    ELSE <<FiniteAngle,
           IF Lt[I(1), Neg[point[3]]] \/ Lt[Neg[point[3]], I(-1)] THEN NaN ELSE FiniteAngle>>

\* hittable.rs:332-338: the root tried first and the root tried second
MinRootPlus(h, sqrt_disc, a) == Div[Add[h, sqrt_disc], a]
MinRoot(h, sqrt_disc, a) == Div[Sub[h, sqrt_disc], a]
MaxRoot(h, sqrt_disc, a) == Div[Add[h, sqrt_disc], a]

\* hittable.rs:343-346
FacingNormalKept(is_front_face, normal) == normal
FacingNormal(is_front_face, normal) == IF is_front_face THEN normal ELSE VNeg[normal]

\* hittable.rs:350
UvIsNanNever(uv) == FALSE
UvIsNan(uv) == IsNaN[uv[1]] \/ IsNaN[uv[2]]

\* hittable.rs:318-365: impl Hit for Sphere.  The local functions are the
\* code's let bindings in order, each taking the values bound before it.
SphereHit(s, ray, range) ==
    LET oc == VSub[s.center, ray.origin]
        WithUv[t \in Floats, point_on_sphere \in Vecs, is_front_face \in BOOLEAN,
               normal \in Vecs, uv \in Floats \X Floats] ==
            IF UvIsNan(uv) THEN None
            ELSE Some(point_on_sphere, normal, t, s.material, is_front_face, uv)
        WithNormal[t \in Floats, point_on_sphere \in Vecs, is_front_face \in BOOLEAN,
                   normal \in Vecs] ==
            WithUv[t, point_on_sphere, is_front_face, normal,
                   UnitSphereUvFacing(normal, s.front_direction)]
        WithOutward[t \in Floats, point_on_sphere \in Vecs, outward \in Vecs] ==
            WithNormal[t, point_on_sphere, IsFrontFace(ray, outward),
                       FacingNormal(IsFrontFace(ray, outward), outward)]
        WithPoint[t \in Floats, point_on_sphere \in Vecs] ==
            WithOutward[t, point_on_sphere,
                        VDiv[VSub[point_on_sphere, s.center], s.radius]]
        WithRoots[t1 \in Floats, t2 \in Floats] ==
            IF RangeContains(range, t1) THEN WithPoint[t1, RayAt(ray, t1)]
            ELSE IF RangeContains(range, t2) THEN WithPoint[t2, RayAt(ray, t2)]
            ELSE None
        WithSqrt[a \in Floats, h \in Floats, sqrt_disc \in Floats] ==
            WithRoots[MinRoot(h, sqrt_disc, a), MaxRoot(h, sqrt_disc, a)]
        WithCoefficients[a \in Floats, h \in Floats, discriminant \in Floats] ==
            IF Lt[discriminant, I(0)] THEN None
            ELSE WithSqrt[a, h, Sqrt[discriminant]]
        WithOc[a \in Floats, h \in Floats, c \in Floats] ==
            WithCoefficients[a, h, Sub[Mul[h, h], Mul[a, c]]]
    IN WithOc[NormSquared[ray.direction], Dot[ray.direction, oc],
              Sub[NormSquared[oc], Mul[s.radius, s.radius]]]

\* hittable.rs:428: det < Float::EPSILON
DetTooSmallTwoSided(det) == Lt[det, EPSILON] /\ Lt[Neg[EPSILON], det]
DetTooSmall(det) == Lt[det, EPSILON]

\* hittable.rs:452
OutsideV(u, v) == Lt[v, I(0)] \/ Lt[I(1), Add[u, v]]

\* hittable.rs:469-481: the UV of the hit
UvMapped(tr, u, v) ==
    LET left == MinF[MinF[tr.uv_a[1], tr.uv_b[1]], tr.uv_c[1]]
        right == MaxF[MaxF[tr.uv_a[1], tr.uv_b[1]], tr.uv_c[1]]
        bot == MinF[MinF[tr.uv_a[2], tr.uv_b[2]], tr.uv_c[2]]
        top == MaxF[MaxF[tr.uv_a[2], tr.uv_b[2]], tr.uv_c[2]]
        width == Sub[right, left]
        height == Sub[top, bot]
    IN <<Add[left, Mul[width, u]], Add[bot, Mul[height, v]]>>

\* hittable.rs:408-495: impl Hit for Triangle.  The local functions are
\* the code's let bindings in order, each taking the values bound before it.
TriangleHit(tr, ray, range) ==
    LET a_to_b == VSub[tr.b, tr.a]
        a_to_c == VSub[tr.c, tr.a]
        a_to_origin == VSub[ray.origin, tr.a]
        WithDist[u \in Floats, v \in Floats, dist \in Floats] ==
            IF ~RangeContains(range, dist) THEN None
            ELSE IF Lt[EPSILON, dist]
                 THEN Some(RayAt(ray, dist), tr.normal, dist, tr.material,
                           Le[Dot[ray.direction, tr.normal], I(0)], UvMapped(tr, u, v))
                 ELSE None
        WithV[inv_det \in Floats, v_vec \in Vecs, u \in Floats, v \in Floats] ==
            IF OutsideV(u, v) THEN None
            ELSE WithDist[u, v, Mul[Dot[a_to_c, v_vec], inv_det]]
        WithVVec[inv_det \in Floats, u \in Floats, v_vec \in Vecs] ==
            WithV[inv_det, v_vec, u, Mul[Dot[ray.direction, v_vec], inv_det]]
        WithU[inv_det \in Floats, u \in Floats] ==
            IF ~(Le[I(0), u] /\ Le[u, I(1)]) THEN None
            ELSE WithVVec[inv_det, u, Cross[a_to_origin, a_to_b]]
        WithInvDet[u_vec \in Vecs, inv_det \in Floats] ==
            WithU[inv_det, Mul[Dot[a_to_origin, u_vec], inv_det]]
        WithDet[u_vec \in Vecs, det \in Floats] ==
            IF DetTooSmall(det) THEN None
            ELSE WithInvDet[u_vec, Div[I(1), det]]
        WithUVec[u_vec \in Vecs] == WithDet[u_vec, Dot[a_to_b, u_vec]]
    IN WithUVec[Cross[ray.direction, a_to_c]]

\* hittable.rs:96-105: enum_dispatch of Hit over Shape
ShapeHit(shape, ray, range) ==
    IF shape.kind = "Sphere" THEN SphereHit(shape, ray, range)
    ELSE TriangleHit(shape, ray, range)

\* hittable.rs:142: the range a candidate is tested in
CandidateEndWhole(range, nearest_hit_dist) == range.end
CandidateEnd(range, nearest_hit_dist) == nearest_hit_dist

\* hittable.rs:135-149: impl Hit for World, over the candidates in the order
\* the traversal iterator yields them
RECURSIVE WorldHitLoop(_, _, _, _, _, _)
WorldHitLoop(candidates, i, ray, range, nearest_hit_dist, nearest_hit) ==
    IF i > Len(candidates) THEN nearest_hit
    ELSE CHOOSE nearest \in
             {IF intersection.some
              THEN WorldHitLoop(candidates, i + 1, ray, range, intersection.t, intersection)
              ELSE WorldHitLoop(candidates, i + 1, ray, range, nearest_hit_dist, nearest_hit) :
                intersection \in
                    {ShapeHit(candidates[i], ray,
                              [start |-> range.start,
                               end |-> CandidateEnd(range, nearest_hit_dist)])}} : TRUE

WorldHit(candidates, ray, range) == WorldHitLoop(candidates, 1, ray, range, range.end, None)

\* ---------------------------------------------- the hit functions' inputs
\* number of candidate shapes the traversal iterator yields
MaxShapes == 2

White == <<I(1), I(1), I(1)>>
Grey == <<Rat[1, 2], Rat[1, 2], Rat[1, 2]>>
Mirror == [kind |-> "Metal", color |-> Grey, fuzz |-> None]
Matte == [kind |-> "Lambertian", color |-> Grey]
\* material.rs:84-91: Metal::new_solid with Some(fuzz)
FuzzyMirror == [kind |-> "Metal", color |-> Grey, fuzz |-> [some |-> TRUE, value |-> Rat[3, 4]]]
\* material.rs:130-147: Dielectric::new, new_frosted and new_inside_other
\* (air inside glass)
Glass == [kind |-> "Dielectric", refractive_index |-> Rat[3, 2], fuzz |-> None]
Frosted == [kind |-> "Dielectric", refractive_index |-> Rat[3, 2],
            fuzz |-> [some |-> TRUE, value |-> Rat[3, 4]]]
Bubble == [kind |-> "Dielectric", refractive_index |-> Rat[2, 3], fuzz |-> None]

\* Triangle::new's vertex UVs, hittable.rs:175-177
DefaultUvA == <<I(0), I(0)>>
DefaultUvB == <<I(1), I(0)>>
DefaultUvC == <<Rat[1, 2], I(1)>>

\* a triangle in the plane x = 2 whose front faces -x, with its centroid on
\* the x axis, a triangle with collinear vertices, and a triangle with legs
\* of 1/8192 in the plane x = 3, its front and centroid as the first one's
FrontTriangle ==
    TriangleNewWithUv(Vec(2, 3, -3), Vec(2, -6, -3), Vec(2, 3, 6),
                      DefaultUvA, DefaultUvB, DefaultUvC, Matte)
CollinearTriangle ==
    TriangleNewWithUv(Vec(2, 3, -3), Vec(2, 0, -3), Vec(2, -6, -3),
                      DefaultUvA, DefaultUvB, DefaultUvC, Matte)

TinyTriangle ==
    TriangleNewWithUv(<<I(3), Rat[1, 24576], Rat[-1, 24576]>>,
                      <<I(3), Rat[-2, 24576], Rat[-1, 24576]>>,
                      <<I(3), Rat[1, 24576], Rat[2, 24576]>>,
                      DefaultUvA, DefaultUvB, DefaultUvC, Matte)

\* spheres on the x axis: radius 5 around the origin, radius 3, and a
\* radius below zero, which Sphere::new makes zero
ShapePool ==
    {SphereNew(Vec(0, 0, 0), I(5), Mirror),
     SphereNew(Vec(20, 0, 0), I(3), Mirror),
     SphereNew(Vec(8, 0, 0), I(-1), Mirror),
     FrontTriangle,
     CollinearTriangle,
     TinyTriangle}

RECURSIVE SeqsUpTo(_, _)
SeqsUpTo(S, n) ==
    IF n = 0 THEN {<<>>}
    ELSE LET shorter == SeqsUpTo(S, n - 1)
         IN shorter \cup
            {Append(q, x) : q \in {r \in shorter : Len(r) = n - 1}, x \in S}

\* the candidates of a query in the order the traversal iterator yields them,
\* each shape of the world once at most
CandidateLists ==
    {q \in SeqsUpTo(ShapePool, MaxShapes) : \A i, j \in 1..Len(q) : q[i] = q[j] => i = j}

\* rays along the x axis, forwards, backwards and with a direction that is
\* not a unit vector, rays across it, and rays of length zero; the origins are
\* before, inside and behind the shapes, on the axis and off it
RayOffsets == {<<0, 0>>, <<3, 0>>, <<4, 0>>, <<0, -4>>, <<0, 4>>}
RayStarts == {-10, 0, 10}
RayDirections == {Vec(1, 0, 0), Vec(2, 0, 0), Vec(-1, 0, 0), Vec(0, 1, 0), Vec(0, 0, 0)}
Rays ==
    {[origin |-> Vec(x, o[1], o[2]), direction |-> d] :
        x \in RayStarts, o \in RayOffsets, d \in RayDirections}

\* camera.rs:22-23: T_MIN and T_MAX; the model's T_MAX is a distance beyond
\* every shape of the model
T_MIN == I(0)
T_MAX == I(1000000)
\* camera.rs:175: the near bound of raycast's queries
NearBound == Rat[1, 1000]

Ranges ==
    {[start |-> T_MIN, end |-> T_MAX], [start |-> I(6), end |-> I(20)],
     [start |-> NearBound, end |-> I(4)]}

\* -------------------------------------------------------- raycast's inputs
\* the largest max_depth of a camera
MaxDepth == 2

Black == Vec(0, 0, 0)

\* the triangle of FrontTriangle seen from the other side: its front faces +x
BackTriangle(material) ==
    TriangleNewWithUv(Vec(2, 3, -3), Vec(2, 3, 6), Vec(2, -6, -3),
                      DefaultUvA, DefaultUvB, DefaultUvC, material)

\* Worlds with the materials that refract or have fuzz: a glass sphere seen
\* from outside and from inside; a pane of frosted glass in front of a
\* mirror sphere; a pane whose far side is the denser medium, met head-on and
\* at an angle past the critical one; a mirror with fuzz.
GlassScenes ==
    {[world |-> <<SphereNew(Vec(0, 0, 0), I(5), Glass)>>,
      rays |-> {[origin |-> Vec(x, 0, 0), direction |-> Vec(1, 0, 0)] : x \in {-10, 0}}],
     [world |-> <<BackTriangle(Frosted), SphereNew(Vec(-20, 0, 0), I(3), Mirror)>>,
      rays |-> {[origin |-> Vec(10, 0, 0), direction |-> Vec(-2, 0, 0)]}],
     [world |-> <<BackTriangle(Bubble)>>,
      rays |-> {[origin |-> Vec(10, 0, 0), direction |-> Vec(-2, 0, 0)],
                [origin |-> Vec(5, -4, 0), direction |-> Vec(-3, 4, 0)]}],
     [world |-> <<BackTriangle(FuzzyMirror)>>,
      rays |-> {[origin |-> Vec(10, 0, 0), direction |-> Vec(-1, 0, 0)]}]}

\* The worlds raycast runs in and the camera rays sent into each: no shape;
\* the inside of a sphere, of metal and of a diffuse material; a mirror
\* triangle in front of a sphere, seen from the front; a mirror triangle
\* facing a mirror sphere with the camera between the two; a mirror sphere
\* that sends the ray up to a mirror triangle, which sends it down past the
\* sphere.
Scenes ==
    {[world |-> <<>>,
      rays |-> {[origin |-> Vec(0, 0, 0), direction |-> d] :
                   d \in {Vec(0, 1, 0), Vec(0, -1, 0), Vec(2, 0, 0), Vec(3, 4, 0)}}],
     [world |-> <<SphereNew(Vec(0, 0, 0), I(5), Mirror)>>,
      rays |-> {[origin |-> Vec(0, 0, 0), direction |-> d] :
                   d \in {Vec(1, 0, 0), Vec(0, 2, 0)}}],
     [world |-> <<SphereNew(Vec(0, 0, 0), I(5), Matte)>>,
      rays |-> {[origin |-> Vec(0, 0, 0), direction |-> d] :
                   d \in {Vec(1, 0, 0), Vec(0, 2, 0)}}],
     [world |-> <<SphereNew(Vec(20, 0, 0), I(3), Mirror),
                  TriangleNewWithUv(Vec(2, 3, -3), Vec(2, -6, -3), Vec(2, 3, 6),
                                    DefaultUvA, DefaultUvB, DefaultUvC, Mirror)>>,
      rays |-> {[origin |-> Vec(-10, o[1], o[2]), direction |-> Vec(1, 0, 0)] :
                   o \in {<<0, 0>>, <<4, 0>>}}],
     [world |-> <<BackTriangle(Mirror), SphereNew(Vec(20, 0, 0), I(3), Mirror)>>,
      rays |-> {[origin |-> Vec(10, 0, 0), direction |-> d] :
                   d \in {Vec(1, 0, 0), Vec(-1, 0, 0)}}],
     [world |-> <<SphereNew(Vec(0, 0, 0), I(5), Mirror),
                  TriangleNewWithUv(Vec(-12, 27, -1), Vec(-9, 27, -1), Vec(-12, 27, 2),
                                    DefaultUvA, DefaultUvB, DefaultUvC, Mirror)>>,
      rays |-> {[origin |-> Vec(-10, y, 0), direction |-> Vec(1, 0, 0)] : y \in {0, 3}}]}
        \cup GlassScenes


VARIABLES
    prog,            \* "window" or "main"
    tape,            \* the estimate render_pixel returns for a pixel in a pass
    render_pixels,   \* the work list
    render_buffer,   \* RwLock<[u8; WIDTH*HEIGHT*4]>: the bytes
    stamp,           \* history: the pass whose write set each byte (0: the fill)
    readers,         \* threads holding the read lock
    writer,          \* thread holding the write lock, 0 if none
    closing,         \* AtomicBool
    rt_pc,           \* position of render_thread
    pass,            \* number of passes started (i + 1 of the for loop)
    todo,            \* positions of render_pixels no worker has taken yet
    w_pc,            \* position of each worker in the for_each closure
    w_item,          \* the closure's captures: idx, pass, new/old colour, r g b
    d_pc,            \* position of the event loop / write thread
    frame,           \* pixels.frame_mut() with the stamps copied along
    copy_buf,        \* write_thread's copy with the stamps copied along
    out_file,        \* the colours written to preview_out.ppm
    hist,            \* history: per pixel bookkeeping for the properties
    last_allowed,    \* history: the last pass that may start once closing is set
    g_ray,           \* the ray of a query of the hit functions
    g_range,         \* the range of the query
    g_world,         \* the candidate shapes of the query, in traversal order
    g_step,          \* number of candidates tested on their own so far
    g_call,          \* the last call of Sphere::hit or Triangle::hit and its result
    g_res,           \* the result of World::hit
    rc_world,        \* the shapes of the world raycast runs in
    rc_camera,       \* the camera's t_range and max_depth
    rc_stack,        \* the calls of raycast in progress, the running one last
    rc_pc,           \* "call": the running call is at its start; "ret": it returned
    rc_ret,          \* the value the last call returned
    rc_log,          \* history of the path
    fn_in,           \* the arguments of a call of a function checked on its own
    fn_out,          \* what the call returned
    halton           \* the captures of halton_sequence's closure and the values yielded

engine_vars ==
    <<prog, tape, render_pixels, render_buffer, stamp, readers, writer, closing,
      rt_pc, pass, todo, w_pc, w_item, d_pc, frame, copy_buf, out_file, hist,
      last_allowed>>
hit_vars == <<g_ray, g_range, g_world, g_step, g_call, g_res>>
path_vars == <<rc_world, rc_camera, rc_stack, rc_pc, rc_ret, rc_log>>

unit_vars == <<fn_in, fn_out, halton>>

vars == <<engine_vars, hit_vars, path_vars, unit_vars>>

\* lock holders other than the workers: the event loop and write_thread
EvThread == NumWorkers + 1
WtThread == NumWorkers + 2

\* idx, pass (num_samples and total_samples are those of this pass), new_color,
\* old_color with the stamps read, the numerators of combined_color, (r, g, b),
\* the next byte to write; saw: this worker's flag check has observed true
NoItem == [idx |-> 0, pass |-> 0, new |-> <<0, 0, 0>>, old |-> <<0, 0, 0>>,
           seen |-> <<0, 0, 0>>, lin |-> <<0, 0, 0>>, rgb |-> <<0, 0, 0>>,
           k |-> 0, saw |-> FALSE]

NoCopy == [bytes |-> [i \in BufIndex |-> 0], stamps |-> [i \in BufIndex |-> 0]]

\* hist[p]: done = passes committed to p; lin = numerator of the last
\* combined_color per channel over the denominator total, in units; sum = sum
\* of num_samples * estimate per channel; used = sample indices traced so
\* far, rays = camera rays of the last render_pixel, reused = a sample index
\* was traced twice
NoHist == [p \in Pixels |-> [done |-> 0, lin |-> <<0, 0, 0>>, sum |-> <<0, 0, 0>>,
                             total |-> 0, used |-> {}, rays |-> 0,
                             reused |-> FALSE]]

\* no call made yet
NoCall == [done |-> FALSE]

\* history of a call of raycast: the primary ray, the nearest-hit queries
\* made, the number of recursive calls, the attenuations of the bounces, how
\* the path ended and the direction of the ray that escaped
NoLog == [primary |-> [origin |-> Vec(0, 0, 0), direction |-> Vec(0, 0, 0)],
          queries |-> <<>>, calls |-> 0, atts |-> <<>>, end |-> "none",
          esc_dir |-> Vec(0, 0, 0)]

\* the engine's runs make no call of the hit functions of their own: the
\* estimates of render_pixel are those of tape
HitIdle ==
    /\ g_ray = [origin |-> Vec(0, 0, 0), direction |-> Vec(0, 0, 0)]
    /\ g_range = [start |-> T_MIN, end |-> T_MAX]
    /\ g_world = <<>>
    /\ g_step = 0
    /\ g_call = NoCall
    /\ g_res = NoCall

PathIdle ==
    /\ rc_world = <<>>
    /\ rc_camera = [t_range |-> [start |-> T_MIN, end |-> T_MAX], max_depth |-> 0]
    /\ rc_stack = <<>>
    /\ rc_pc = "idle"
    /\ rc_ret = Black
    /\ rc_log = NoLog

\* camera.rs:55-57: halton_sequence's closure before its first call, with the
\* values it has yielded and whether it has returned None
NoHalton ==
    [base |-> 2, sequence_length |-> 0, n |-> 0, d |-> 1, index |-> 0, out |-> <<>>,
     ended |-> FALSE]

\* no call of a function on its own is made, and no sequence is generated
UnitIdle ==
    /\ fn_in = NoCall
    /\ fn_out = NoCall
    /\ halton = NoHalton

InitCommon ==
    /\ tape \in Tapes
    /\ render_buffer = [i \in BufIndex |-> 255]
    /\ stamp = [i \in BufIndex |-> 0]
    /\ readers = {}
    /\ writer = 0
    /\ closing = FALSE
    /\ rt_pc = "top"
    /\ pass = 0
    /\ todo = {}
    /\ w_pc = [w \in Workers |-> "idle"]
    /\ w_item = [w \in Workers |-> NoItem]
    /\ d_pc = "loop"
    /\ frame = NoCopy
    /\ copy_buf = NoCopy
    /\ out_file = <<>>
    /\ hist = NoHist
    /\ last_allowed = 0

Init ==
    /\ prog = "window"
    /\ render_pixels = IdentityList
    /\ InitCommon
    /\ HitIdle
    /\ PathIdle
    /\ UnitIdle

InitMain ==
    /\ prog = "main"
    /\ render_pixels \in Shuffles
    /\ InitCommon
    /\ HitIdle
    /\ PathIdle
    /\ UnitIdle

InitBoth == Init \/ InitMain

\* the engine before it starts, as the calls of the hit functions and of
\* raycast find it
EngineIdle ==
    /\ prog = "window"
    /\ render_pixels = IdentityList
    /\ InitCommon
    /\ tape = CHOOSE t \in Tapes : TRUE

\* ------------------------------------------------------- render_thread
\* window.rs:258-270: the for loop takes the next pass and hands every
\* entry of render_pixels to the pool
StartPass ==
    /\ rt_pc = "top"
    /\ pass < NumPasses
    /\ pass' = pass + 1
    /\ todo' = 1..NumPixels
    /\ rt_pc' = "for_each"
    /\ UNCHANGED <<hit_vars, path_vars, unit_vars,
                     prog, tape, render_pixels, render_buffer, stamp, readers, writer, closing,
                   w_pc, w_item, d_pc, frame, copy_buf, out_file, hist, last_allowed>>

\* window.rs:325-326: the pass list is exhausted, render_thread returns
LoopEnd ==
    /\ rt_pc = "top"
    /\ pass = NumPasses
    /\ rt_pc' = "returned"
    /\ UNCHANGED <<hit_vars, path_vars, unit_vars,
                     prog, tape, render_pixels, render_buffer, stamp, readers, writer, closing,
                   pass, todo, w_pc, w_item, d_pc, frame, copy_buf, out_file, hist,
                   last_allowed>>

\* for_each returns when every work item has run to its end
ForEachEarly == todo = {}
ForEachDone == todo = {} /\ \A w \in Workers : w_pc[w] = "idle"

\* window.rs:311: for_each has returned, next is the check of line 312
JoinWindow ==
    /\ prog = "window"
    /\ rt_pc = "for_each"
    /\ ForEachDone
    /\ rt_pc' = "check"
    /\ UNCHANGED <<hit_vars, path_vars, unit_vars,
                     prog, tape, render_pixels, render_buffer, stamp, readers, writer, closing,
                   pass, todo, w_pc, w_item, d_pc, frame, copy_buf, out_file, hist,
                   last_allowed>>

\* window.rs:312-314
CheckClosing ==
    /\ rt_pc = "check"
    /\ rt_pc' = IF closing THEN "returned" ELSE "top"
    /\ UNCHANGED <<hit_vars, path_vars, unit_vars,
                     prog, tape, render_pixels, render_buffer, stamp, readers, writer, closing,
                   pass, todo, w_pc, w_item, d_pc, frame, copy_buf, out_file, hist,
                   last_allowed>>

\* main.rs:273-284: for_each has returned, the loop goes on to the next pass
JoinMain ==
    /\ prog = "main"
    /\ rt_pc = "for_each"
    /\ ForEachDone
    /\ rt_pc' = "top"
    /\ UNCHANGED <<hit_vars, path_vars, unit_vars,
                     prog, tape, render_pixels, render_buffer, stamp, readers, writer, closing,
                   pass, todo, w_pc, w_item, d_pc, frame, copy_buf, out_file, hist,
                   last_allowed>>

\* ------------------------------------------------------------- workers
\* window.rs:271-273: the item returns when it observes the flag set
SkipsNever(flag) == FALSE
Skips(flag) == flag

\* window.rs:270-277: a pool thread takes an entry of render_pixels; the item
\* checks the flag, then render_pixel traces this pass's sample count
StartItem(w) ==
    /\ rt_pc = "for_each"
    /\ w_pc[w] = "idle"
    /\ \E k \in todo :
        /\ todo' = todo \ {k}
        /\ IF Skips(closing)
           THEN /\ w_item' = [w_item EXCEPT ![w] = [NoItem EXCEPT !.saw = closing]]
                /\ UNCHANGED <<w_pc, hist>>
           ELSE LET p == render_pixels[k]
                    c == tape[p, pass]
                    s == SampleIndices(num_samples_at_pass[pass])
                IN  /\ w_pc' = [w_pc EXCEPT ![w] = "rdlock"]
                    /\ w_item' = [w_item EXCEPT ![w] = [NoItem EXCEPT !.idx = p,
                                                                      !.pass = pass,
                                                                      !.new = c,
                                                                      !.saw = closing]]
                    /\ hist' = [hist EXCEPT ![p].used = @ \cup s,
                                            ![p].rays = Cardinality(s),
                                            ![p].reused = @ \/ (s \cap hist[p].used # {})]
    /\ UNCHANGED <<hit_vars, path_vars, unit_vars,
                     prog, tape, render_pixels, render_buffer, stamp, readers, writer, closing,
                   rt_pc, pass, d_pc, frame, copy_buf, out_file, last_allowed>>

\* RwLock: read() is granted while no thread holds the write lock
CanReadAlways == TRUE
CanRead == writer = 0

\* RwLock: write() is granted while no thread holds the lock at all
CanWriteAmongReaders == writer = 0
CanWrite == writer = 0 /\ readers = {}

\* window.rs:281: render_buffer.read()
ReadLock(w) ==
    /\ w_pc[w] = "rdlock"
    /\ CanRead
    /\ readers' = readers \cup {w}
    /\ w_pc' = [w_pc EXCEPT ![w] = "read"]
    /\ UNCHANGED <<hit_vars, path_vars, unit_vars,
                     prog, tape, render_pixels, render_buffer, stamp, writer, closing, rt_pc,
                   pass, todo, w_item, d_pc, frame, copy_buf, out_file, hist,
                   last_allowed>>

\* window.rs:282-295: numerator of combined_color over the denominator
\* total_samples, in units, for the estimate new and the byte old
CombinedWholeOld(new, old, num_samples, total_samples) ==
    new * num_samples + 2 * old * total_samples
Combined(new, old, num_samples, total_samples) ==
    new * num_samples + 2 * old * (total_samples - num_samples)

\* old_color is read and the guard is kept
ReadOldKeepsGuard(w) ==
    /\ w_pc[w] = "read"
    /\ LET i == w_item[w].idx * 4
           n == num_samples_at_pass[w_item[w].pass]
           t == num_samples_total[w_item[w].pass]
           old == [c \in 1..3 |-> render_buffer[i + c - 1]]
           lin == [c \in 1..3 |-> Combined(w_item[w].new[c], old[c], n, t)]
       IN  w_item' = [w_item EXCEPT ![w].old = old,
                                    ![w].seen = [c \in 1..3 |-> stamp[i + c - 1]],
                                    ![w].lin = lin,
                                    ![w].rgb = [c \in 1..3 |-> AsRgbLinear(lin[c], t)]]
    /\ readers' = readers
    /\ w_pc' = [w_pc EXCEPT ![w] = "wrlock"]
    /\ UNCHANGED <<hit_vars, path_vars, unit_vars,
                     prog, tape, render_pixels, render_buffer, stamp, writer, closing, rt_pc,
                   pass, todo, d_pc, frame, copy_buf, out_file, hist, last_allowed>>

\* window.rs:282-301: old_color is read, the guard is dropped, the colours
\* are mixed and encoded
ReadOld(w) ==
    /\ w_pc[w] = "read"
    /\ LET i == w_item[w].idx * 4
           n == num_samples_at_pass[w_item[w].pass]
           t == num_samples_total[w_item[w].pass]
           old == [c \in 1..3 |-> render_buffer[i + c - 1]]
           lin == [c \in 1..3 |-> Combined(w_item[w].new[c], old[c], n, t)]
       IN  w_item' = [w_item EXCEPT ![w].old = old,
                                    ![w].seen = [c \in 1..3 |-> stamp[i + c - 1]],
                                    ![w].lin = lin,
                                    ![w].rgb = [c \in 1..3 |-> AsRgbLinear(lin[c], t)]]
    /\ readers' = readers \ {w}
    /\ w_pc' = [w_pc EXCEPT ![w] = "wrlock"]
    /\ UNCHANGED <<hit_vars, path_vars, unit_vars,
                     prog, tape, render_pixels, render_buffer, stamp, writer, closing, rt_pc,
                   pass, todo, d_pc, frame, copy_buf, out_file, hist, last_allowed>>

\* window.rs:303: render_buffer.write()
WriteLock(w) ==
    /\ w_pc[w] = "wrlock"
    /\ CanWrite
    /\ writer' = w
    /\ w_pc' = [w_pc EXCEPT ![w] = "write"]
    /\ UNCHANGED <<hit_vars, path_vars, unit_vars,
                     prog, tape, render_pixels, render_buffer, stamp, readers, closing, rt_pc,
                   pass, todo, w_item, d_pc, frame, copy_buf, out_file, hist,
                   last_allowed>>

\* window.rs:304-306: the bytes an item stores, as offsets from i
WrittenOffsetsWithAlpha == 0..3
WrittenOffsets == 0..2

\* window.rs:304-310: one store of buffer[i + k]; the guard is dropped after
\* the last one and the item is over
WriteByte(w) ==
    /\ w_pc[w] = "write"
    /\ LET p == w_item[w].idx
           i == p * 4
           k == w_item[w].k
           n == num_samples_at_pass[w_item[w].pass]
           last == k + 1 \notin WrittenOffsets
       IN  /\ render_buffer' = [render_buffer EXCEPT ![i + k] = IF k < 3 THEN w_item[w].rgb[k + 1] ELSE 0]
           /\ stamp' = [stamp EXCEPT ![i + k] = w_item[w].pass]
           /\ w_item' = [w_item EXCEPT ![w] = IF last THEN [NoItem EXCEPT !.saw = w_item[w].saw]
                                                  ELSE [@ EXCEPT !.k = k + 1]]
           /\ writer' = IF last THEN 0 ELSE writer
           /\ w_pc' = [w_pc EXCEPT ![w] = IF last THEN "idle" ELSE "write"]
           /\ hist' = IF last
                      THEN [hist EXCEPT ![p].done = @ + 1,
                                        ![p].lin = w_item[w].lin,
                                        ![p].total = num_samples_total[w_item[w].pass],
                                        ![p].sum = [c \in 1..3 |-> @[c] + n * w_item[w].new[c]]]
                      ELSE hist
    /\ UNCHANGED <<hit_vars, path_vars, unit_vars,
                     prog, tape, render_pixels, readers, closing, rt_pc, pass, todo, d_pc,
                   frame, copy_buf, out_file, last_allowed>>

\* ------------------------------------------------------- display layer
\* window.rs:194-205: RedrawRequested takes the read lock
RedrawLock ==
    /\ d_pc = "loop"
    /\ CanRead
    /\ readers' = readers \cup {EvThread}
    /\ d_pc' = "redraw"
    /\ UNCHANGED <<hit_vars, path_vars, unit_vars,
                     prog, tape, render_pixels, render_buffer, stamp, writer, closing, rt_pc,
                   pass, todo, w_pc, w_item, frame, copy_buf, out_file, hist,
                   last_allowed>>

\* window.rs:206-207: the frame is copied and the guard dropped
RedrawCopy ==
    /\ d_pc = "redraw"
    /\ frame' = [bytes |-> render_buffer, stamps |-> stamp]
    /\ readers' = readers \ {EvThread}
    /\ d_pc' = "render"
    /\ UNCHANGED <<hit_vars, path_vars, unit_vars,
                     prog, tape, render_pixels, render_buffer, stamp, writer, closing, rt_pc,
                   pass, todo, w_pc, w_item, copy_buf, out_file, hist, last_allowed>>

\* window.rs:209-211: pixels.render() shows the frame; the next redraw
\* overwrites all of it
RedrawRender ==
    /\ d_pc = "render"
    /\ frame' = NoCopy
    /\ d_pc' = "loop"
    /\ UNCHANGED <<hit_vars, path_vars, unit_vars,
                     prog, tape, render_pixels, render_buffer, stamp, readers, writer, closing,
                   rt_pc, pass, todo, w_pc, w_item, copy_buf, out_file, hist,
                   last_allowed>>

\* window.rs:93-108: CloseRequested stores the flag and spawns write_thread
CloseRequested ==
    /\ d_pc = "loop"
    /\ closing' = TRUE
    /\ d_pc' = "wt_lock"
    /\ last_allowed' = IF rt_pc = "top" THEN pass + 1 ELSE pass
    /\ UNCHANGED <<hit_vars, path_vars, unit_vars,
                     prog, tape, render_pixels, render_buffer, stamp, readers, writer, rt_pc,
                   pass, todo, w_pc, w_item, frame, copy_buf, out_file, hist>>

\* window.rs:109-112: write_thread takes the read lock
WtLock ==
    /\ d_pc = "wt_lock"
    /\ CanRead
    /\ readers' = readers \cup {WtThread}
    /\ d_pc' = "wt_copy"
    /\ UNCHANGED <<hit_vars, path_vars, unit_vars,
                     prog, tape, render_pixels, render_buffer, stamp, writer, closing, rt_pc,
                   pass, todo, w_pc, w_item, frame, copy_buf, out_file, hist,
                   last_allowed>>

\* window.rs:113-114: the buffer is copied and the guard dropped
WtCopy ==
    /\ d_pc = "wt_copy"
    /\ copy_buf' = [bytes |-> render_buffer, stamps |-> stamp]
    /\ readers' = readers \ {WtThread}
    /\ d_pc' = "wt_write"
    /\ UNCHANGED <<hit_vars, path_vars, unit_vars,
                     prog, tape, render_pixels, render_buffer, stamp, writer, closing, rt_pc,
                   pass, todo, w_pc, w_item, frame, out_file, hist, last_allowed>>

\* window.rs:115-134, camera.rs:241-262: the copy's colours are gamma encoded
\* into the file
WtWrite ==
    /\ d_pc = "wt_write"
    /\ out_file' = [k \in 1..NumPixels |->
                       [c \in 1..3 |-> AsRgbGamma(copy_buf.bytes[(k - 1) * 4 + c - 1])]]
    /\ copy_buf' = NoCopy
    /\ d_pc' = "join"
    /\ UNCHANGED <<hit_vars, path_vars, unit_vars,
                     prog, tape, render_pixels, render_buffer, stamp, readers, writer, closing,
                   rt_pc, pass, todo, w_pc, w_item, frame, hist, last_allowed>>

\* the exit clears the flag
ExitLoopResets ==
    /\ d_pc = "join"
    /\ d_pc' = "exited"
    /\ closing' = FALSE
    /\ UNCHANGED <<hit_vars, path_vars, unit_vars,
                     prog, tape, render_pixels, render_buffer, stamp, readers, writer,
                   rt_pc, pass, todo, w_pc, w_item, frame, copy_buf, out_file, hist,
                   last_allowed>>

\* window.rs:138-139: join, then the event loop exits
ExitLoop ==
    /\ d_pc = "join"
    /\ d_pc' = "exited"
    /\ UNCHANGED <<hit_vars, path_vars, unit_vars,
                     prog, tape, render_pixels, render_buffer, stamp, readers, writer, closing,
                   rt_pc, pass, todo, w_pc, w_item, frame, copy_buf, out_file, hist,
                   last_allowed>>

Worker(w) ==
    \/ StartItem(w)
    \/ ReadLock(w)
    \/ ReadOld(w)
    \/ WriteLock(w)
    \/ WriteByte(w)

Display ==
    \/ RedrawLock
    \/ RedrawCopy
    \/ RedrawRender
    \/ CloseRequested
    \/ WtLock
    \/ WtCopy
    \/ WtWrite
    \/ ExitLoop

Common ==
    \/ StartPass
    \/ LoopEnd
    \/ \E w \in Workers : Worker(w)
    \/ Display

Next ==
    \/ Common
    \/ JoinWindow
    \/ CheckClosing

NextMain ==
    \/ Common
    \/ JoinMain

NextBoth ==
    \/ Common
    \/ JoinWindow
    \/ CheckClosing
    \/ JoinMain

Spec == Init /\ [][Next]_vars

SpecMain == InitMain /\ [][NextMain]_vars

SpecBoth == InitBoth /\ [][NextBoth]_vars

\* ------------------------------------------------------------ fairness
\* The pool and render_thread keep running; a lock request that can be
\* granted again and again is granted.  Window events are up to the user.
Fairness ==
    /\ WF_vars(StartPass) /\ WF_vars(LoopEnd)
    /\ WF_vars(JoinWindow) /\ WF_vars(CheckClosing) /\ WF_vars(JoinMain)
    /\ \A w \in Workers :
        /\ WF_vars(StartItem(w)) /\ WF_vars(ReadOld(w)) /\ WF_vars(WriteByte(w))
        /\ SF_vars(ReadLock(w)) /\ SF_vars(WriteLock(w))
    /\ WF_vars(RedrawCopy) /\ WF_vars(RedrawRender)
    /\ SF_vars(WtLock) /\ WF_vars(WtCopy) /\ WF_vars(WtWrite) /\ WF_vars(ExitLoop)

FairSpec == Spec /\ Fairness

FairSpecMain == SpecMain /\ Fairness

\* ------------------------------------------------- calls of the hit functions
\* One query: the candidates of g_world are tested one after the other with
\* the query's ray and range (Sphere::hit, Triangle::hit), then World::hit is
\* called on the whole list.
InitHit ==
    /\ EngineIdle
    /\ PathIdle
    /\ UnitIdle
    /\ g_ray \in Rays
    /\ g_range \in Ranges
    /\ g_world \in CandidateLists
    /\ g_step = 0
    /\ g_call = NoCall
    /\ g_res = NoCall

CallSphereHit ==
    /\ g_step < Len(g_world)
    /\ g_world[g_step + 1].kind = "Sphere"
    /\ g_call' = [done |-> TRUE, shape |-> g_world[g_step + 1],
                  hit |-> SphereHit(g_world[g_step + 1], g_ray, g_range)]
    /\ g_step' = g_step + 1
    /\ UNCHANGED <<engine_vars, path_vars, unit_vars, g_ray, g_range, g_world, g_res>>

CallTriangleHit ==
    /\ g_step < Len(g_world)
    /\ g_world[g_step + 1].kind = "Triangle"
    /\ g_call' = [done |-> TRUE, shape |-> g_world[g_step + 1],
                  hit |-> TriangleHit(g_world[g_step + 1], g_ray, g_range)]
    /\ g_step' = g_step + 1
    /\ UNCHANGED <<engine_vars, path_vars, unit_vars, g_ray, g_range, g_world, g_res>>

CallWorldHit ==
    /\ g_step = Len(g_world)
    /\ ~g_res.done
    /\ g_res' = [done |-> TRUE, hit |-> WorldHit(g_world, g_ray, g_range)]
    /\ UNCHANGED <<engine_vars, path_vars, unit_vars, g_ray, g_range, g_world, g_step, g_call>>

NextHit ==
    \/ CallSphereHit
    \/ CallTriangleHit
    \/ CallWorldHit

SpecHit == InitHit /\ [][NextHit]_vars

\* ------------------------------------------------------------- raycast
\* camera.rs:189-191: the sky seen along a direction
SkyTerm(direction) ==
    LET Blend[a \in Floats] ==
            VAdd[VScale[White, Sub[I(1), a]], VScale[<<Rat[1, 2], Rat[7, 10], I(1)>>, a]]
        Toward[unit_dir \in Vecs] == Blend[Div[Add[unit_dir[2], I(1)], I(2)]]
    IN Toward[Normalize[direction]]

\* material.rs:46-51
Reflect(incoming_direction, surface_normal) ==
    LET scaled_normal == VScale[surface_normal, Dot[incoming_direction, surface_normal]]
    IN VSub[incoming_direction, VScale[scaled_normal, I(2)]]

\* vec3_ext.rs:78-84: every component is below sqrt(Float::EPSILON) in size
NearZero(v) == \A k \in 1..3 : Lt[Mul[v[k], v[k]], EPSILON]

\* the values Vec3::random_unit returns in the model: the unit vectors of
\* the axes
RandomUnits ==
    {Vec(1, 0, 0), Vec(-1, 0, 0), Vec(0, 1, 0), Vec(0, -1, 0), Vec(0, 0, 1), Vec(0, 0, -1)}

\* material.rs:54-60
Refract(incoming_direction, surface_normal, refractive_ratio) ==
    LET WithPerp[r_out_perp \in Vecs] ==
            VAdd[VScale[surface_normal,
                        Neg[Sqrt[FAbs[Sub[I(1), NormSquared[r_out_perp]]]]]],
                 r_out_perp]
        WithCos[cos_theta \in Floats] ==
            WithPerp[VScale[VAdd[incoming_direction, VScale[surface_normal, cos_theta]],
                            refractive_ratio]]
    IN WithCos[MinF[Neg[Dot[incoming_direction, surface_normal]], I(1)]]

\* material.rs:181-186: Schlick's approximation
Reflectance(cosine, refractive_index) ==
    LET Powi5[x \in Floats] == Mul[Mul[Mul[x, x], Mul[x, x]], x]
        WithR0[r0 \in Floats] == Add[r0, Mul[Sub[I(1), r0], Powi5[Sub[I(1), cosine]]]]
        Squared[r0 \in Floats] == WithR0[Mul[r0, r0]]
    IN Squared[Div[Sub[I(1), refractive_index], Add[I(1), refractive_index]]]

\* the values thread_rng().gen_range(0.0..=1.0) returns in the model
Noises == {I(0), Rat[1, 2], I(1)}

\* material.rs:106, 118, 174-177: the value a scatter returns
NoScatter(attenuation, scattered) == None
SomeScatter(attenuation, scattered) ==
    [some |-> TRUE, attenuation |-> attenuation, scattered |-> scattered]

\* material.rs:94-108: Scatter for Metal
MetalScatter(material, ray_in, intersection) ==
    LET Fuzzed[reflected \in Vecs] ==
            IF material.fuzz.some
            THEN {VAdd[reflected, VScale[u, material.fuzz.value]] : u \in RandomUnits}
            ELSE {reflected}
    IN {SomeScatter(material.color, [origin |-> intersection.point, direction |-> d]) :
           d \in Fuzzed[Reflect(ray_in.direction, intersection.normal)]}

\* material.rs:110-120: Scatter for Lambertian
LambertianScatter(material, hit) ==
    LET Unzeroed[scatter_dir \in Vecs] ==
            IF NearZero(scatter_dir) THEN hit.normal ELSE scatter_dir
    IN {SomeScatter(material.color,
                    [origin |-> hit.point, direction |-> Unzeroed[VAdd[hit.normal, u]]]) :
           u \in RandomUnits}

\* material.rs:150-179: Scatter for Dielectric
DielectricScatter(material, ray_in, record) ==
    LET ri == IF record.is_front_face
              THEN Div[I(1), material.refractive_index]
              ELSE material.refractive_index
        Refracted[incoming_direction \in Vecs] ==
            IF material.fuzz.some
            THEN {VAdd[Refract(incoming_direction, record.normal, ri),
                       VScale[u, material.fuzz.value]] : u \in RandomUnits}
            ELSE {Refract(incoming_direction, record.normal, ri)}
        Directions[incoming_direction \in Vecs, cos_theta \in Floats, sin_theta \in Floats] ==
            IF Lt[I(1), Mul[ri, sin_theta]]
            THEN {Reflect(incoming_direction, record.normal)}
            ELSE UNION {IF Lt[noise, Reflectance(cos_theta, ri)]
                        THEN {Reflect(incoming_direction, record.normal)}
                        ELSE Refracted[incoming_direction] : noise \in Noises}
        WithCos[incoming_direction \in Vecs, cos_theta \in Floats] ==
            Directions[incoming_direction, cos_theta,
                       Sqrt[Sub[I(1), Mul[cos_theta, cos_theta]]]]
        WithIncoming[incoming_direction \in Vecs] ==
            WithCos[incoming_direction,
                    MinF[Neg[Dot[incoming_direction, record.normal]], I(1)]]
    IN {SomeScatter(White, [origin |-> record.point, direction |-> Normalize[direction]]) :
           direction \in WithIncoming[Normalize[ray_in.direction]]}

\* material.rs:10-16, 38-44: enum_dispatch of Scatter over Material; the set
\* of the values the call can return
Scatter(material, ray_in, hit) ==
    IF material.kind = "Metal" THEN MetalScatter(material, ray_in, hit)
    ELSE IF material.kind = "Lambertian" THEN LambertianScatter(material, hit)
    ELSE DielectricScatter(material, ray_in, hit)

\* camera.rs:175: the range of a nearest-hit query
QueryNearFromCamera(t_range) == t_range.start
QueryNear(t_range) == NearBound

\* camera.rs:179: the depth left to the recursive call
NextDepthSame(max_depth) == max_depth
NextDepth(max_depth) == max_depth - 1

\* camera.rs:180
AttenuateNot(attenuation, bounced_ray) == bounced_ray
Attenuate(attenuation, bounced_ray) == ComponentMul[attenuation, bounced_ray]

\* the frame of the call of raycast that runs
Top == rc_stack[Len(rc_stack)]

\* camera.rs:175: world.hit(ray, &(0.001..self.t_range.end))
TopHit ==
    WorldHit(rc_world, Top.ray,
             [start |-> QueryNear(rc_camera.t_range), end |-> rc_camera.t_range.end])

LogQuery(hit) ==
    Append(rc_log.queries,
           [near |-> QueryNear(rc_camera.t_range), some |-> hit.some,
            t |-> IF hit.some THEN hit.t ELSE NaN])

InitPath ==
    /\ EngineIdle
    /\ HitIdle
    /\ UnitIdle
    /\ \E s \in Scenes :
        /\ rc_world = s.world
        /\ \E r \in s.rays, d \in 0..MaxDepth, start \in {T_MIN, I(1)} :
            /\ rc_camera = [t_range |-> [start |-> start, end |-> T_MAX], max_depth |-> d]
            /\ rc_stack = <<[ray |-> r, max_depth |-> d, attenuation |-> Black]>>
            /\ rc_log = [NoLog EXCEPT !.primary = r]
    /\ rc_pc = "call"
    /\ rc_ret = Black

\* camera.rs:175-180: a hit, the material scatters and depth is left: the
\* recursive call.  camera.rs:184-186: the material absorbs: black.
RaycastBounce ==
    LET Scattered(hit, out) ==
            IF ~out.some
            THEN /\ rc_ret' = Black
                 /\ rc_pc' = "ret"
                 /\ rc_log' = [rc_log EXCEPT !.queries = LogQuery(hit), !.end = "absorbed"]
                 /\ UNCHANGED rc_stack
            ELSE /\ Top.max_depth > 0
                 /\ rc_stack' =
                        Append([rc_stack EXCEPT ![Len(rc_stack)].attenuation = out.attenuation],
                               [ray |-> out.scattered,
                                max_depth |-> NextDepth(Top.max_depth),
                                attenuation |-> Black])
                 /\ rc_log' = [rc_log EXCEPT !.queries = LogQuery(hit),
                                             !.calls = @ + 1,
                                             !.atts = Append(@, out.attenuation)]
                 /\ UNCHANGED <<rc_pc, rc_ret>>
    IN /\ rc_pc = "call"
       /\ \E hit \in {TopHit} :
            /\ hit.some
            /\ \E out \in Scatter(hit.material, Top.ray, hit) : Scattered(hit, out)
       /\ UNCHANGED <<engine_vars, hit_vars, unit_vars, rc_world, rc_camera>>

\* camera.rs:181-183: a hit, the material scatters and no depth is left
RaycastLimit ==
    /\ rc_pc = "call"
    /\ Top.max_depth = 0
    /\ \E hit \in {TopHit} :
         /\ hit.some
         /\ \E out \in Scatter(hit.material, Top.ray, hit) : out.some
         /\ rc_log' = [rc_log EXCEPT !.queries = LogQuery(hit), !.end = "limit"]
    /\ rc_ret' = Black
    /\ rc_pc' = "ret"
    /\ UNCHANGED <<engine_vars, hit_vars, unit_vars, rc_world, rc_camera, rc_stack>>

\* camera.rs:187-192: no hit: the sky
RaycastEscape ==
    /\ rc_pc = "call"
    /\ \E hit \in {TopHit} :
         /\ ~hit.some
         /\ rc_log' = [rc_log EXCEPT !.queries = LogQuery(hit), !.end = "escaped",
                                     !.esc_dir = Top.ray.direction]
    /\ rc_ret' = SkyTerm(Top.ray.direction)
    /\ rc_pc' = "ret"
    /\ UNCHANGED <<engine_vars, hit_vars, unit_vars, rc_world, rc_camera, rc_stack>>

\* camera.rs:179-180: a recursive call returns to its caller
RaycastReturn ==
    /\ rc_pc = "ret"
    /\ Len(rc_stack) > 1
    /\ rc_ret' = Attenuate(rc_stack[Len(rc_stack) - 1].attenuation, rc_ret)
    /\ rc_stack' = SubSeq(rc_stack, 1, Len(rc_stack) - 1)
    /\ UNCHANGED <<engine_vars, hit_vars, unit_vars, rc_world, rc_camera, rc_pc, rc_log>>

\* camera.rs:200: the call of render_pixel returns
RaycastDone ==
    /\ rc_pc = "ret"
    /\ Len(rc_stack) = 1
    /\ rc_pc' = "done"
    /\ rc_stack' = <<>>
    /\ UNCHANGED <<engine_vars, hit_vars, unit_vars, rc_world, rc_camera, rc_ret, rc_log>>

NextPath ==
    \/ RaycastBounce
    \/ RaycastLimit
    \/ RaycastEscape
    \/ RaycastReturn
    \/ RaycastDone

SpecPath == InitPath /\ [][NextPath]_vars

\* a call that can take a step takes it
FairSpecPath == SpecPath /\ WF_vars(NextPath)

\* --------------------------------------------------------- bounding boxes
\* Range<Float>::is_empty: !(start < end)
RangeIsEmpty(range) == ~Lt[range.start, range.end]

\* bvh.rs:46-52
RangeAround(r1, r2) ==
    [start |-> MinF[r1.start, r2.start], end |-> MaxF[r1.end, r2.end]]

\* bvh.rs:55-61: AxisAlignedBoundingBox::new
BoxNew(x_range, y_range, z_range) == [x |-> x_range, y |-> y_range, z |-> z_range]

\* bvh.rs:71-82: AxisAlignedBoundingBox::around
Around(a, b) ==
    [x |-> RangeAround(a.x, b.x), y |-> RangeAround(a.y, b.y), z |-> RangeAround(a.z, b.z)]

\* bvh.rs:84-86
Axes(box) == <<box.x, box.y, box.z>>

\* bvh.rs:88-93: AxisAlignedBoundingBox::ZERO
ZERO ==
    BoxNew([start |-> I(0), end |-> I(0)], [start |-> I(0), end |-> I(0)],
           [start |-> I(0), end |-> I(0)])

\* bvh.rs:102-107: the parameters at which the ray is inside the slab of
\* axis i, as t_min..t_max
SlabInterval(box, ray, i) ==
    LET WithInverse[ad_inverse \in Floats] ==
            LET t0 == Mul[Sub[Axes(box)[i].start, ray.origin[i]], ad_inverse]
                t1 == Mul[Sub[Axes(box)[i].end, ray.origin[i]], ad_inverse]
            IN [start |-> MinF[t0, t1], end |-> MaxF[t0, t1]]
    IN WithInverse[Div[I(1), ray.direction[i]]]

\* bvh.rs:109: the slab's interval cut to the range of the query; the range
\* is the parameter of hit in every turn of the loop
SlabInRange(box, ray, range, i) ==
    LET WithSlab[slab \in [start : Floats, end : Floats]] ==
            [start |-> MaxF[slab.start, range.start], end |-> MinF[slab.end, range.end]]
    IN WithSlab[SlabInterval(box, ray, i)]

\* bvh.rs:98-126: impl Hit for AxisAlignedBoundingBox; the record returned
\* says only that the ray hits
BoxHit(box, ray, range) ==
    IF \E i \in 1..3 : RangeIsEmpty(SlabInRange(box, ray, range, i))
    THEN None
    ELSE Some(Black, Black, I(0), [kind |-> "Lambertian", color |-> Black], TRUE,
              <<I(0), I(0)>>)

\* boxes: ZERO, two boxes that lie apart and the box around the two
AxisRange(lo, hi) == [start |-> I(lo), end |-> I(hi)]
BoxPool ==
    {ZERO,
     BoxNew(AxisRange(1, 2), AxisRange(1, 2), AxisRange(-1, 1)),
     BoxNew(AxisRange(-2, -1), AxisRange(-1, 3), AxisRange(1, 2)),
     BoxNew(AxisRange(-2, 2), AxisRange(-1, 3), AxisRange(-1, 2))}

\* rays from the origin and from a point outside the boxes, along a diagonal,
\* steeper than it, along an axis, and backwards
BoxRays ==
    {[origin |-> o, direction |-> d] :
        o \in {Vec(0, 0, 0), Vec(-4, -4, 0)},
        d \in {Vec(1, 1, 0), Vec(1, 4, 0), Vec(4, 1, 1), Vec(1, 0, 0), Vec(-1, -1, 0)}}

BoxRanges == {[start |-> T_MIN, end |-> T_MAX], [start |-> T_MIN, end |-> I(1)]}

\* One run: AxisAlignedBoundingBox::around is called on two boxes, or hit
\* on the first of them.
InitBox ==
    /\ EngineIdle
    /\ HitIdle
    /\ PathIdle
    /\ halton = NoHalton
    /\ \E a \in BoxPool, b \in BoxPool, ray \in BoxRays, range \in BoxRanges :
           fn_in = [a |-> a, b |-> b, ray |-> ray, range |-> range]
    /\ fn_out = NoCall

CallAround ==
    /\ ~fn_out.done
    /\ fn_out' = [done |-> TRUE, fn |-> "around", box |-> Around(fn_in.a, fn_in.b)]
    /\ UNCHANGED <<engine_vars, hit_vars, path_vars, fn_in, halton>>

CallBoxHit ==
    /\ ~fn_out.done
    /\ fn_out' = [done |-> TRUE, fn |-> "hit",
                  hit |-> BoxHit(fn_in.a, fn_in.ray, fn_in.range)]
    /\ UNCHANGED <<engine_vars, hit_vars, path_vars, fn_in, halton>>

NextBox ==
    \/ CallAround
    \/ CallBoxHit

SpecBox == InitBox /\ [][NextBox]_vars

\* ------------------------------------------------ colour at the output
\* camera::linear_to_gamma: the square root (window.rs:299)
LinearToGammaFloat(linear) == Sqrt[linear]

\* vec3_ext.rs:39, vec3.rs:100
CMax == Rat[255999, 1000]

\* f32::round, then `as u8`: halves away from zero, NaN is 0 and the value
\* saturates at 0 and 255
RoundAsU8(x) ==
    IF IsNaN[x] THEN 0
    ELSE IF ~IsFinite[x] THEN (IF x.n > 0 THEN 255 ELSE 0)
    ELSE IF x.n < 0 THEN 0
    ELSE Min(255, (2 * x.n + x.d) \div (2 * x.d))

\* ToPrimitive::to_u8 of a float: the value with its fraction cut off if it
\* is above -1 and below 256, or None
ToU8(x) ==
    IF Lt[I(-1), x] /\ Lt[x, I(256)]
    THEN [some |-> TRUE, value |-> IF x.n < 0 THEN 0 ELSE x.n \div x.d]
    ELSE None

\* vec3_ext.rs:19-20: !color_range.contains(&self.x)
OutOfColorRangeNever(x) == FALSE
OutOfColorRange(x) == ~(Le[I(0), x] /\ Le[x, I(1)])

\* vec3.rs:102: self.x < Scalar::zero() || self.x > Scalar::one()
BelowZeroOrAboveOne(x) == Lt[x, I(0)] \/ Lt[I(1), x]

\* what as_rgb does: it panics, or returns the three numbers of the string
Panic == [panic |-> TRUE]
Rgb(r, g, b) == [panic |-> FALSE, rgb |-> <<r, g, b>>]

\* vec3_ext.rs:18-45: Vec3Ext::as_rgb
Vec3ExtAsRgb(color) ==
    IF \E c \in 1..3 : OutOfColorRange(color[c]) THEN Panic
    ELSE Rgb(RoundAsU8(Mul[LinearToGammaFloat(color[1]), CMax]),
             RoundAsU8(Mul[LinearToGammaFloat(color[2]), CMax]),
             RoundAsU8(Mul[LinearToGammaFloat(color[3]), CMax]))

\* vec3.rs:97-131: Color::as_rgb; unwrap panics on None
ColorAsRgb(color) ==
    LET Unwrapped[ppm_r \in [some : BOOLEAN, value : Int] \cup {None},
                  ppm_g \in [some : BOOLEAN, value : Int] \cup {None},
                  ppm_b \in [some : BOOLEAN, value : Int] \cup {None}] ==
            IF ~ppm_r.some \/ ~ppm_g.some \/ ~ppm_b.some THEN Panic
            ELSE Rgb(ppm_r.value, ppm_g.value, ppm_b.value)
    IN IF \E c \in 1..3 : BelowZeroOrAboveOne(color[c]) THEN Panic
       ELSE Unwrapped[ToU8(Mul[LinearToGammaFloat(color[1]), CMax]),
                      ToU8(Mul[LinearToGammaFloat(color[2]), CMax]),
                      ToU8(Mul[LinearToGammaFloat(color[3]), CMax])]

\* channel values inside [0, 1], its two ends included, and outside it: below
\* and above, the infinities and NaN
ChannelValues ==
    {I(0), Rat[1, 100], Rat[1, 4], Rat[9, 16], I(1),
     Rat[-1, 4], Rat[9, 4], I(4), Infinity, Neg[Infinity], NaN}

\* One run: as_rgb is called on a colour, the one of Vec3Ext or the one of
\* Color.
InitColor ==
    /\ EngineIdle
    /\ HitIdle
    /\ PathIdle
    /\ halton = NoHalton
    /\ \E r \in ChannelValues, g \in ChannelValues, b \in ChannelValues :
           fn_in = [color |-> <<r, g, b>>]
    /\ fn_out = NoCall

CallVec3ExtAsRgb ==
    /\ ~fn_out.done
    /\ fn_out' = [done |-> TRUE, fn |-> "Vec3Ext::as_rgb", ret |-> Vec3ExtAsRgb(fn_in.color)]
    /\ UNCHANGED <<engine_vars, hit_vars, path_vars, fn_in, halton>>

CallColorAsRgb ==
    /\ ~fn_out.done
    /\ fn_out' = [done |-> TRUE, fn |-> "Color::as_rgb", ret |-> ColorAsRgb(fn_in.color)]
    /\ UNCHANGED <<engine_vars, hit_vars, path_vars, fn_in, halton>>

NextColor ==
    \/ CallVec3ExtAsRgb
    \/ CallColorAsRgb

SpecColor == InitColor /\ [][NextColor]_vars

\* ------------------------------------------------------ halton_sequence
\* the longest sequence the model asks for
MaxHaltonLen == 12

\* camera.rs:121-122: the bases of rng_map's two sequences, and a third base
HaltonBases == {2, 3, 5}

\* camera.rs:121-123: the length of rng_map
RngMapLen == 1024 * 1024

\* window.rs:240-246: the largest entry of num_samples_at_pass
MostSamplesAtPass == 256

\* camera.rs:67-70: let mut y = d / base; while x < y { y /= base; }
RECURSIVE HaltonY(_, _, _)
HaltonY(x, y, base) == IF x < y THEN HaltonY(x, y \div base, base) ELSE y

\* camera.rs:71
HaltonNumeratorPlain(base, y, x) == base * y - x
HaltonNumerator(base, y, x) == (base + 1) * y - x

\* One run: halton_sequence(base, sequence_length) is called and the
\* iterator is driven until it returns None.
InitHalton ==
    /\ EngineIdle
    /\ HitIdle
    /\ PathIdle
    /\ fn_in = NoCall
    /\ fn_out = NoCall
    /\ \E base \in HaltonBases, sequence_length \in 0..MaxHaltonLen :
           halton = [NoHalton EXCEPT !.base = base, !.sequence_length = sequence_length]

\* camera.rs:62-74: the closure's captures after a call that yields a value
HaltonStep(h) ==
    LET x == h.d - h.n
        n == IF x = 1 THEN 1
             ELSE HaltonNumerator(h.base, HaltonY(x, h.d \div h.base, h.base), x)
        d == IF x = 1 THEN h.d * h.base ELSE h.d
    IN [h EXCEPT !.n = n, !.d = d, !.index = @ + 1, !.out = Append(@, Div[I(n), I(d)])]

\* camera.rs:58-75: a call of the closure that yields a value
HaltonSome ==
    /\ ~halton.ended
    /\ halton.index < halton.sequence_length
    /\ halton' = HaltonStep(halton)
    /\ UNCHANGED <<engine_vars, hit_vars, path_vars, fn_in, fn_out>>

\* camera.rs:59-61: the call that ends the sequence
HaltonNone ==
    /\ ~halton.ended
    /\ halton.index >= halton.sequence_length
    /\ halton' = [halton EXCEPT !.ended = TRUE]
    /\ UNCHANGED <<engine_vars, hit_vars, path_vars, fn_in, fn_out>>

NextHalton ==
    \/ HaltonSome
    \/ HaltonNone

SpecHalton == InitHalton /\ [][NextHalton]_vars

\* --------------------------------------------------------- Camera::new
\* to_radians and tan of half of an angle in degrees, for the angles of the
\* model: tan(0) = 0 and tan(45 degrees) = 1
HalfAngleTan(degrees) == IF degrees = 90 THEN I(1) ELSE I(0)

\* camera.rs:121-123: rng_map[i], the i-th pair of the two sequences
RECURSIVE HaltonRun(_, _)
HaltonRun(h, k) == IF k = 0 THEN h ELSE HaltonRun(HaltonStep(h), k - 1)

RngMap(i) ==
    <<HaltonRun([NoHalton EXCEPT !.base = 2, !.sequence_length = i + 1], i + 1).out[i + 1],
      HaltonRun([NoHalton EXCEPT !.base = 3, !.sequence_length = i + 1], i + 1).out[i + 1]>>

\* camera.rs:80-140: Camera::new.  The local functions are the code's let
\* bindings in order, each taking the values bound before it.  No statement
\* of the function returns early or panics.
CameraNew(lookfrom, lookat, up, focus_distance, defocus_angle, image_width, image_height, samples_per_pixel, max_depth, vertical_fov, t_range) ==
    LET WithPixels[u \in Vecs, v \in Vecs, pixel_du \in Vecs, pixel_dv \in Vecs,
                   vp_upper_left \in Vecs, defocus_radius \in Floats] ==
            [center |-> lookfrom,
             defocus_angle |-> defocus_angle,
             defocus_disk_u |-> VScale[u, defocus_radius],
             defocus_disk_v |-> VScale[v, defocus_radius],
             image_width |-> image_width,
             image_height |-> image_height,
             samples_per_pixel |-> samples_per_pixel,
             max_depth |-> max_depth,
             pixel00_loc |-> VAdd[vp_upper_left, VDiv[VAdd[pixel_du, pixel_dv], I(2)]],
             pixel_du |-> pixel_du,
             pixel_dv |-> pixel_dv,
             t_range |-> t_range]
        WithViewport[w \in Vecs, u \in Vecs, v \in Vecs, viewport_u \in Vecs,
                     viewport_v \in Vecs] ==
            WithPixels[u, v,
                       VDiv[viewport_u, I(image_width)],
                       VDiv[viewport_v, I(image_height)],
                       VSub[VSub[VSub[lookfrom, VScale[w, focus_distance]],
                                 VDiv[viewport_u, I(2)]],
                            VDiv[viewport_v, I(2)]],
                       Mul[focus_distance, HalfAngleTan(defocus_angle)]]
        WithSize[w \in Vecs, u \in Vecs, v \in Vecs, viewport_height \in Floats,
                 viewport_width \in Floats] ==
            WithViewport[w, u, v, VScale[u, viewport_width], VScale[VNeg[v], viewport_height]]
        WithHeight[w \in Vecs, u \in Vecs, v \in Vecs, viewport_height \in Floats] ==
            WithSize[w, u, v, viewport_height,
                     Mul[viewport_height, Div[I(image_width), I(image_height)]]]
        WithU[w \in Vecs, u \in Vecs] ==
            WithHeight[w, u, Cross[w, u],
                       Mul[Mul[I(2), HalfAngleTan(vertical_fov)], focus_distance]]
        WithW[w \in Vecs] == WithU[w, Normalize[Cross[up, w]]]
    IN WithW[Normalize[VSub[lookfrom, lookat]]]

\* camera.rs:265-268: the points random_in_unit_disc returns in the model
DiscSamples == {<<I(0), I(0)>>, <<Rat[1, 2], I(0)>>, <<I(0), Rat[-1, 2]>>}

\* camera.rs:144-172: Camera::get_ray, with the point p of the disc
GetRay(camera, x, y, i, p) ==
    LET WithOrigin[pixel_sample \in Vecs, origin \in Vecs] ==
            [origin |-> origin, direction |-> VSub[pixel_sample, origin]]
        WithOffset[offset \in Floats \X Floats] ==
            WithOrigin[VAdd[VAdd[camera.pixel00_loc,
                                 VScale[camera.pixel_du, Add[I(x), offset[1]]]],
                            VScale[camera.pixel_dv, Add[I(y), offset[2]]]],
                       IF camera.defocus_angle <= 0 THEN camera.center
                       ELSE VAdd[VAdd[camera.center, VScale[camera.defocus_disk_u, p[1]]],
                                 VScale[camera.defocus_disk_v, p[2]]]]
    IN WithOffset[RngMap(i)]

\* the arguments of Camera::new: the focus distance is positive, zero or
\* negative, the image has pixels or none, the camera looks at a point in
\* front of it or at its own position
FocusDistances == {I(10), I(1), I(0), I(-1)}

CameraArguments ==
    [lookfrom : {Vec(0, 0, 3), Vec(0, 0, -1)},
     lookat : {Vec(0, 0, -1)},
     up : {Vec(0, 1, 0)},
     focus_distance : FocusDistances,
     defocus_angle : {0, 90},
     image_width : {4, 0},
     image_height : {2, 0},
     samples_per_pixel : {1},
     max_depth : {MaxDepth},
     vertical_fov : {90},
     t_range : {[start |-> T_MIN, end |-> T_MAX]}]

\* One run: Camera::new is called, then get_ray on the camera it returned,
\* as render_pixel does.
InitCamera ==
    /\ EngineIdle
    /\ HitIdle
    /\ PathIdle
    /\ halton = NoHalton
    /\ fn_in \in CameraArguments
    /\ fn_out = NoCall

CallCameraNew ==
    /\ ~fn_out.done
    /\ fn_out' = [done |-> TRUE, fn |-> "Camera::new", failed |-> FALSE,
                  camera |-> CameraNew(fn_in.lookfrom, fn_in.lookat, fn_in.up,
                                       fn_in.focus_distance, fn_in.defocus_angle,
                                       fn_in.image_width, fn_in.image_height,
                                       fn_in.samples_per_pixel, fn_in.max_depth,
                                       fn_in.vertical_fov, fn_in.t_range)]
    /\ UNCHANGED <<engine_vars, hit_vars, path_vars, fn_in, halton>>

CallGetRay ==
    /\ fn_out.done
    /\ fn_out.fn = "Camera::new"
    /\ ~fn_out.failed
    /\ \E x \in 0..1, y \in 0..1, i \in 0..1, p \in DiscSamples :
           fn_out' = [done |-> TRUE, fn |-> "Camera::get_ray", failed |-> FALSE,
                      camera |-> fn_out.camera,
                      ray |-> GetRay(fn_out.camera, x, y, i, p)]
    /\ UNCHANGED <<engine_vars, hit_vars, path_vars, fn_in, halton>>

NextCamera ==
    \/ CallCameraNew
    \/ CallGetRay

SpecCamera == InitCamera /\ [][NextCamera]_vars

\* ----------------------------------------------------------- Vec3::cross
\* Vec3<Scalar> is generic; Scalar is taken as the crate's Float = f32
\* (camera.rs:19). On numbers that are integers its arithmetic gives a result
\* of up to 24 bits exactly and rounds a longer one to the nearest number of
\* 24 bits, a tie to the even one.
\* the distance between the f32 numbers at the size a
RECURSIVE Spacing(_, _)
Spacing(a, p) == IF a \div p < 16777216 THEN p ELSE Spacing(a, 2 * p)

RoundF32(n) ==
    LET WithSpacing[a \in Nat, p \in Nat] ==
            LET q == a \div p
                r == a % p
            IN p * (IF 2 * r > p \/ (2 * r = p /\ q % 2 = 1) THEN q + 1 ELSE q)
    IN IF n < 0 THEN -WithSpacing[-n, Spacing(-n, 1)] ELSE WithSpacing[n, Spacing(n, 1)]

\* vec3.rs:179-189: Mul<Scalar> for Vec3
ScaleF32(v, k) == <<RoundF32(v[1] * k), RoundF32(v[2] * k), RoundF32(v[3] * k)>>

\* vec3.rs:73-79: Vec3::cross
CrossLeftHanded(self, other) ==
    <<RoundF32(RoundF32(self[3] * other[2]) - RoundF32(self[2] * other[3])),
      RoundF32(RoundF32(self[1] * other[3]) - RoundF32(self[3] * other[1])),
      RoundF32(RoundF32(self[2] * other[1]) - RoundF32(self[1] * other[2]))>>
CrossF32(self, other) ==
    <<RoundF32(RoundF32(self[2] * other[3]) - RoundF32(self[3] * other[2])),
      RoundF32(RoundF32(self[3] * other[1]) - RoundF32(self[1] * other[3])),
      RoundF32(RoundF32(self[1] * other[2]) - RoundF32(self[2] * other[1]))>>

\* vectors of small integers, and vectors with one component of 13 bits
CrossVectors ==
    {<<x, y, z>> : x \in {-2, 0, 1, 3}, y \in {-2, 0, 1, 3}, z \in {-2, 0, 1, 3}}
        \cup {<<0, 3, 4097>>, <<3, 0, -4097>>, <<4097, 1, 0>>}

\* scalars, positive and negative, small and of 13 bits
CrossScalars == {-4097, -2, 1, 3, 4097}

UnitVectors == {<<1, 0, 0>>, <<0, 1, 0>>, <<0, 0, 1>>}

\* One run: cross is called on a vector and a multiple of it, or on two
\* unit vectors of the axes.
InitCross ==
    /\ EngineIdle
    /\ HitIdle
    /\ PathIdle
    /\ halton = NoHalton
    /\ \/ \E v \in CrossVectors, k \in CrossScalars :
              fn_in = [self |-> v, k |-> k, other |-> ScaleF32(v, k), parallel |-> TRUE]
       \/ \E v \in UnitVectors, o \in UnitVectors :
              fn_in = [self |-> v, k |-> 0, other |-> o, parallel |-> FALSE]
    /\ fn_out = NoCall

CallCross ==
    /\ ~fn_out.done
    /\ fn_out' = [done |-> TRUE, fn |-> "Vec3::cross", ret |-> CrossF32(fn_in.self, fn_in.other)]
    /\ UNCHANGED <<engine_vars, hit_vars, path_vars, fn_in, halton>>

NextCross == CallCross

SpecCross == InitCross /\ [][NextCross]_vars

\* ---------------------------------------------------------- properties
\* the first byte of pixel p in the buffer
Base(p) == 4 * p

\* worker w has read old_color and has not finished writing the blend
InBlend(w) == w_pc[w] \in {"wrlock", "write"}

\* worker w holds a lock on the buffer for its pixel or is between its two locks
Touching(w) == w_pc[w] \in {"read", "wrlock", "write"}

\* C1: between a worker's read of a pixel's old colour and its write of the
\* blended colour no other worker reads or writes that pixel, and the bytes it
\* has not yet overwritten are still the ones it read (no lost update).
C1_NoLostUpdate ==
    \A w \in Workers : InBlend(w) =>
        /\ \A v \in Workers \ {w} : Touching(v) => w_item[v].idx # w_item[w].idx
        /\ \A c \in 1..3 : c - 1 >= w_item[w].k =>
              /\ stamp[Base(w_item[w].idx) + c - 1] = w_item[w].seen[c]
              /\ render_buffer[Base(w_item[w].idx) + c - 1] = w_item[w].old[c]

\* a worker is between its read and its write, with the lock released, while
\* another worker is writing, in the second pass
C1_Witness ==
    \E w \in Workers : \E v \in Workers \ {w} :
        /\ w_pc[w] = "wrlock" /\ w_pc[v] = "write" /\ pass = 2
        /\ w_item[w].idx # w_item[v].idx

\* C2: passes are sequenced: every pixel has the contribution of all started
\* passes or of all but the one in flight, and a work item is of the pass in
\* flight and finds all earlier passes committed to its pixel.
C2_PassesSequenced ==
    /\ \A p \in Pixels : hist[p].done \in {pass - 1, pass}
    /\ \A w \in Workers : w_pc[w] # "idle" =>
          /\ w_item[w].pass = pass
          /\ hist[w_item[w].idx].done = pass - 1

\* a worker reads in the second pass a pixel the first pass has committed
C2_Witness ==
    \E w \in Workers : w_pc[w] = "read" /\ w_item[w].pass = 2
                       /\ stamp[Base(w_item[w].idx)] = 1

\* every pixel has been blended in every started pass and none is in flight
PassesCompleted ==
    /\ pass >= 1
    /\ rt_pc # "for_each"
    /\ \A p \in Pixels : hist[p].done = pass

\* C3: after k completed passes each pixel's accumulated value is the
\* sample-count-weighted mean of the k estimates: value * sum of n_i equals
\* the sum of n_i * estimate_i, per channel.
C3_WeightedMean ==
    PassesCompleted =>
        \A p \in Pixels : \A c \in 1..3 :
            2 * render_buffer[Base(p) + c - 1] * hist[p].total = hist[p].sum[c]

\* C4: render_pixel traces exactly the pass's sample count of camera rays and
\* none of the sample indices of a pass was used for that pixel before.
C4_FreshSamples ==
    /\ \A w \in Workers : w_pc[w] # "idle" =>
          hist[w_item[w].idx].rays = num_samples_at_pass[w_item[w].pass]
    /\ \A p \in Pixels : ~hist[p].reused

\* C5: the old operand of a blend is the un-encoded linear accumulator: the
\* combined_color of the pass before, neither gamma encoded nor quantized.
C5_OldIsLinearAccumulator ==
    \A w \in Workers : (InBlend(w) /\ w_item[w].pass > 1) =>
        \A c \in 1..3 :
            2 * w_item[w].old[c] * hist[w_item[w].idx].total = hist[w_item[w].idx].lin[c]

\* C6: a work item whose flag check observed the flag set takes no lock and
\* reads and writes nothing: the worker is never in the item's body.
C6_SkipsOnceObserved ==
    \A w \in Workers : w_item[w].saw =>
        /\ w_pc[w] = "idle"
        /\ w \notin readers
        /\ writer # w

\* a worker has observed the flag and skipped an item, which left a pixel
\* without the contribution of the pass in flight
C6_Witness ==
    /\ \E w \in Workers : w_item[w].saw
    /\ todo = {}
    /\ \E p \in Pixels : hist[p].done < pass

\* C7: the flag starts false, only the close handler writes it, and once
\* true it stays true.
C7_FlagMonotonic ==
    /\ closing = FALSE
    /\ [][/\ closing => closing'
          /\ closing' # closing => (d_pc = "loop" /\ d_pc' = "wt_lock")]_vars

\* the flag is set and the event loop has exited
C7_Witness == closing /\ d_pc = "exited" /\ rt_pc = "returned"

\* C8: once the flag is set the render thread eventually returns, and no
\* pass after the one in flight is started.
C8_CancelStopsRender ==
    /\ closing ~> (rt_pc = "returned")
    /\ [](closing => pass <= last_allowed)

\* no pixel of the copy mixes bytes of two writes
NoTorn(copy) ==
    \A p \in Pixels :
        /\ copy.stamps[Base(p)] = copy.stamps[Base(p) + 1]
        /\ copy.stamps[Base(p)] = copy.stamps[Base(p) + 2]

\* C9: a copy of the buffer taken under the read lock, by the redraw or by
\* the file writer, has for every pixel R, G and B of one single write.
C9_NoTornPixels ==
    /\ d_pc = "render" => NoTorn(frame)
    /\ d_pc = "wt_write" => NoTorn(copy_buf)

\* the file writer's copy is taken after cancellation in the middle of a
\* pass: one pixel has the pass's write and a worker has yet to write another
C9_Witness ==
    /\ d_pc = "wt_write"
    /\ \E p \in Pixels : copy_buf.stamps[Base(p)] = pass
    /\ \E w \in Workers : w_pc[w] \in {"wrlock", "write"}

\* C10: the alpha byte of every pixel is 0xff in every state, and a worker's
\* store changes only one of the three colour bytes of its own pixel.
C10_AlphaConstant ==
    /\ [](\A p \in Pixels : render_buffer[Base(p) + 3] = 255)
    /\ [][\A i \in BufIndex : render_buffer'[i] # render_buffer[i] =>
             \E w \in Workers :
                 /\ writer = w
                 /\ i \in {Base(w_item[w].idx) + k : k \in 0..2}]_vars

\* a pixel has been written with a colour other than the fill
C10_Witness ==
    \E p \in Pixels : stamp[Base(p) + 2] >= 1 /\ render_buffer[Base(p)] # 255

\* the hits of the candidates of the query, each tested on its own with the
\* query's whole range
CandidateHits ==
    {h \in {ShapeHit(g_world[i], g_ray, g_range) : i \in 1..Len(g_world)} : h.some}

\* C11: World::hit returns None if no candidate has a hit in the range, as for
\* a world of no shape, and otherwise an intersection whose t is the least of
\* the candidates' hits in the range, whatever the order of the candidates.
C11_NearestHit ==
    g_res.done =>
        IF CandidateHits = {} THEN ~g_res.hit.some
        ELSE /\ g_res.hit.some
             /\ \E h \in CandidateHits : h.t = g_res.hit.t
             /\ \A h \in CandidateHits : Le[g_res.hit.t, h.t]

\* two candidates hit in the range, the one tested last nearer, and World::hit
\* has returned the nearer one
C11_Witness ==
    /\ g_res.done
    /\ Len(g_world) = 2
    /\ ShapeHit(g_world[1], g_ray, g_range).some
    /\ ShapeHit(g_world[2], g_ray, g_range).some
    /\ Lt[ShapeHit(g_world[2], g_ray, g_range).t, ShapeHit(g_world[1], g_ray, g_range).t]
    /\ g_res.hit.t = ShapeHit(g_world[2], g_ray, g_range).t

\* the product of the attenuations atts[1..k] and of term
RECURSIVE PathProduct(_, _, _)
PathProduct(atts, k, term) ==
    IF k = 0 THEN term ELSE PathProduct(atts, k - 1, ComponentMul[atts[k], term])

\* C12: the result of a path is the product of the attenuations of its bounces
\* and of the sky term of the direction of the ray that missed; it is black if
\* a scatter call absorbed or the depth limit was reached; in a world of no
\* shape it is the sky term of the primary ray.
C12_PathResult ==
    rc_pc = "done" =>
        /\ rc_log.end \in {"escaped", "limit", "absorbed"}
        /\ rc_log.end = "escaped" =>
               rc_ret = PathProduct(rc_log.atts, Len(rc_log.atts), SkyTerm(rc_log.esc_dir))
        /\ rc_log.end \in {"limit", "absorbed"} => rc_ret = Black
        /\ rc_world = <<>> => rc_ret = SkyTerm(rc_log.primary.direction)

\* a path of two bounces has escaped, with a result that is not black
C12_Witness ==
    /\ rc_pc = "done"
    /\ rc_log.end = "escaped"
    /\ Len(rc_log.atts) = 2
    /\ rc_ret # Black
    /\ rc_ret = ComponentMul[Grey, ComponentMul[Grey, SkyTerm(rc_log.esc_dir)]]

\* a call of raycast with depth limit max_depth has made no more than
\* max_depth recursive calls and max_depth + 1 nearest-hit queries, and the
\* call that has used all of them on rays that hit returns black
C13_Bounded ==
    /\ rc_log.calls <= rc_camera.max_depth
    /\ Len(rc_log.queries) <= rc_camera.max_depth + 1
    /\ (/\ rc_pc = "done"
        /\ Len(rc_log.queries) = rc_camera.max_depth + 1
        /\ rc_log.queries[Len(rc_log.queries)].some) => rc_ret = Black

\* C13: raycast terminates: with depth limit d it makes at most d recursive
\* calls and d + 1 nearest-hit queries in any scene, a closed scene of
\* mirrors included, and then returns black.
C13_Terminates == [](C13_Bounded) /\ <>(rc_pc \in {"done", "idle"})

\* inside a closed mirror sphere a call with the largest depth limit has
\* returned black after as many recursive calls
C13_Witness ==
    /\ rc_pc = "done"
    /\ rc_world = <<SphereNew(Vec(0, 0, 0), I(5), Mirror)>>
    /\ rc_camera.max_depth = MaxDepth
    /\ rc_log.calls = MaxDepth
    /\ Len(rc_log.queries) = MaxDepth + 1
    /\ \A k \in 1..Len(rc_log.queries) : rc_log.queries[k].some
    /\ rc_log.end = "limit"
    /\ rc_ret = Black

\* the largest channel of a colour
MaxChannel(color) == MaxF[MaxF[color[1], color[2]], color[3]]

\* the product of term and of the attenuations atts[1..k], those of the
\* bounces past warm_up each divided by its largest channel
RECURSIVE RouletteProduct(_, _, _, _)
RouletteProduct(atts, k, warm_up, term) ==
    IF k = 0 THEN term
    ELSE RouletteProduct(atts, k - 1, warm_up,
             ComponentMul[IF k > warm_up THEN VDiv[atts[k], MaxChannel(atts[k])] ELSE atts[k],
                          term])

\* C14: past a warm-up depth a path that continues is rescaled by 1/p at each
\* bounce, p the largest channel of the attenuation: the result of a path
\* that escaped is that of some warm-up depth below the depth limit.
C14_RussianRoulette ==
    (rc_pc = "done" /\ rc_log.end = "escaped" /\ rc_camera.max_depth >= 1) =>
        \E warm_up \in 0..(rc_camera.max_depth - 1) :
            rc_ret = RouletteProduct(rc_log.atts, Len(rc_log.atts), warm_up,
                                     SkyTerm(rc_log.esc_dir))

\* C15: every nearest-hit query of raycast, at every bounce, has the near
\* bound 0.001 whatever the start of the camera's t_range, so that no
\* intersection nearer than 0.001 is shaded and a scattered ray does not hit
\* the surface again at its own origin.
C15_NearBound ==
    \A k \in 1..Len(rc_log.queries) :
        /\ rc_log.queries[k].near = NearBound
        /\ rc_log.queries[k].some =>
               /\ Le[NearBound, rc_log.queries[k].t]
               /\ Lt[I(0), rc_log.queries[k].t]

\* a camera whose t_range starts at 0: the ray scattered inside the closed
\* sphere starts on the sphere, where the camera's range would find it again
\* at t = 0, and the query of raycast has found the far side
C15_Witness ==
    /\ rc_camera.t_range.start = T_MIN
    /\ Len(rc_stack) = 3
    /\ Len(rc_log.queries) = 2
    /\ rc_world = <<SphereNew(Vec(0, 0, 0), I(5), Mirror)>>
    /\ WorldHit(rc_world, rc_stack[2].ray, rc_camera.t_range).some
    /\ WorldHit(rc_world, rc_stack[2].ray, rc_camera.t_range).t = I(0)
    /\ rc_log.queries[2].some
    /\ rc_log.queries[2].t = I(10)

\* ---- the quadratic of a sphere s and the ray of the query:
\* a t^2 - 2 h t + c = 0, and its roots
QuadA == Dot[g_ray.direction, g_ray.direction]
QuadH(s) == Dot[g_ray.direction, VSub[s.center, g_ray.origin]]
QuadC(s) ==
    Sub[Dot[VSub[s.center, g_ray.origin], VSub[s.center, g_ray.origin]],
        Mul[s.radius, s.radius]]
Discriminant(s) == Sub[Mul[QuadH(s), QuadH(s)], Mul[QuadA, QuadC(s)]]
SmallerRoot(s) == Div[Sub[QuadH(s), Sqrt[Discriminant(s)]], QuadA]
LargerRoot(s) == Div[Add[QuadH(s), Sqrt[Discriminant(s)]], QuadA]

\* the geometric outward normal of s at the point of the ray at t
Outward(s, t) == VDiv[VSub[RayAt(g_ray, t), s.center], s.radius]

\* a UV component of the point of the ray at t is NaN
UvNanAt(s, t) ==
    \E k \in 1..2 : IsNaN[UnitSphereUvFacing(Outward(s, t), s.front_direction)[k]]

\* a call of Sphere::hit has returned
SphereCalled == g_call.done /\ g_call.shape.kind = "Sphere"
\* a call of Triangle::hit has returned
TriangleCalled == g_call.done /\ g_call.shape.kind = "Triangle"

\* C16 as stated: Sphere::hit returns None when the discriminant is negative,
\* otherwise the smaller root if the range contains it, else the larger root
\* if the range contains it, else None; a returned t lies in the range.
C16_RootSelection ==
    SphereCalled =>
        /\ IF Lt[Discriminant(g_call.shape), I(0)] THEN ~g_call.hit.some
           ELSE IF RangeContains(g_range, SmallerRoot(g_call.shape))
                THEN g_call.hit.some /\ g_call.hit.t = SmallerRoot(g_call.shape)
           ELSE IF RangeContains(g_range, LargerRoot(g_call.shape))
                THEN g_call.hit.some /\ g_call.hit.t = LargerRoot(g_call.shape)
           ELSE ~g_call.hit.some
        /\ g_call.hit.some => RangeContains(g_range, g_call.hit.t)

\* C16 amended: Sphere::hit returns None when the discriminant is negative,
\* otherwise it selects the smaller root if the range contains it, else the
\* larger root if the range contains it, else returns None; it returns the
\* selected root unless a UV component computed at it is NaN, and then
\* None; a returned t lies in the range.
C16_RootSelectionUnlessNan ==
    SphereCalled =>
        /\ IF Lt[Discriminant(g_call.shape), I(0)] THEN ~g_call.hit.some
           ELSE IF RangeContains(g_range, SmallerRoot(g_call.shape))
                THEN IF UvNanAt(g_call.shape, SmallerRoot(g_call.shape))
                     THEN ~g_call.hit.some
                     ELSE g_call.hit.some /\ g_call.hit.t = SmallerRoot(g_call.shape)
           ELSE IF RangeContains(g_range, LargerRoot(g_call.shape))
                THEN IF UvNanAt(g_call.shape, LargerRoot(g_call.shape))
                     THEN ~g_call.hit.some
                     ELSE g_call.hit.some /\ g_call.hit.t = LargerRoot(g_call.shape)
           ELSE ~g_call.hit.some
        /\ g_call.hit.some => RangeContains(g_range, g_call.hit.t)

\* the range holds the larger root and not the smaller one, and Sphere::hit
\* has returned the larger one
C16_Witness ==
    /\ SphereCalled
    /\ Lt[I(0), Discriminant(g_call.shape)]
    /\ ~RangeContains(g_range, SmallerRoot(g_call.shape))
    /\ RangeContains(g_range, LargerRoot(g_call.shape))
    /\ g_call.hit.some
    /\ g_call.hit.t = LargerRoot(g_call.shape)

\* the ray is outside the sphere before the hit: the hit is at the first of
\* the points the ray has on the sphere
ApproachedFromOutside == g_call.hit.t = SmallerRoot(g_call.shape)

\* the ray goes into the sphere at the hit
EntersSphere == ApproachedFromOutside /\ Lt[I(0), Discriminant(g_call.shape)]

TriDet(tr) == Dot[VSub[tr.b, tr.a], Cross[g_ray.direction, VSub[tr.c, tr.a]]]
TriU(tr) ==
    Div[Dot[VSub[g_ray.origin, tr.a], Cross[g_ray.direction, VSub[tr.c, tr.a]]], TriDet(tr)]
TriV(tr) ==
    Div[Dot[g_ray.direction, Cross[VSub[g_ray.origin, tr.a], VSub[tr.b, tr.a]]], TriDet(tr)]
TriDist(tr) ==
    Div[Dot[VSub[tr.c, tr.a], Cross[VSub[g_ray.origin, tr.a], VSub[tr.b, tr.a]]], TriDet(tr)]

\* the point of tr with the barycentric parameters (u, v)
TriPoint(tr, u, v) ==
    VAdd[tr.a, VAdd[VScale[VSub[tr.b, tr.a], u], VScale[VSub[tr.c, tr.a], v]]]

\* a vector along the normal of the front of tr
TriFront(tr) == Cross[VSub[tr.b, tr.a], VSub[tr.c, tr.a]]

Centroid(tr) == VDiv[VAdd[VAdd[tr.a, tr.b], tr.c], I(3)]

\* the ray of the query comes from the front of tr and goes through its
\* centroid, at a distance the range of the query holds
AimedAtCentroid(tr) ==
    /\ Lt[Dot[g_ray.direction, TriFront(tr)], I(0)]
    /\ RayAt(g_ray, TriDist(tr)) = Centroid(tr)
    /\ RangeContains(g_range, TriDist(tr))
    /\ Lt[EPSILON, TriDist(tr)]

\* a returned intersection has a determinant of at least EPSILON,
\* barycentric parameters of a point of the triangle and a distance in the
\* range; a ray from the back of the triangle or parallel to it misses
TriangleHitOnlyIf ==
    /\ g_call.hit.some =>
          /\ Le[EPSILON, TriDet(g_call.shape)]
          /\ Le[I(0), TriU(g_call.shape)] /\ Le[TriU(g_call.shape), I(1)]
          /\ Le[I(0), TriV(g_call.shape)]
          /\ Le[Add[TriU(g_call.shape), TriV(g_call.shape)], I(1)]
          /\ g_call.hit.t = TriDist(g_call.shape)
          /\ RangeContains(g_range, g_call.hit.t)
          /\ g_call.hit.point = TriPoint(g_call.shape, TriU(g_call.shape), TriV(g_call.shape))
    /\ Le[I(0), Dot[g_ray.direction, TriFront(g_call.shape)]] => ~g_call.hit.some

C19_BarycentricUv ==
    (TriangleCalled /\ g_call.hit.some) =>
        \A k \in 1..2 :
            g_call.hit.uv[k] =
                Add[Add[Mul[Sub[Sub[I(1), TriU(g_call.shape)], TriV(g_call.shape)],
                            g_call.shape.uv_a[k]],
                        Mul[TriU(g_call.shape), g_call.shape.uv_b[k]]],
                    Mul[TriV(g_call.shape), g_call.shape.uv_c[k]]]

\* the input of the call is degenerate: a direction of length zero, a sphere
\* of radius zero, a triangle with collinear vertices
Degenerate ==
    \/ g_ray.direction = Vec(0, 0, 0)
    \/ g_call.shape.kind = "Sphere" /\ g_call.shape.radius = I(0)
    \/ g_call.shape.kind = "Triangle" /\ TriFront(g_call.shape) = Vec(0, 0, 0)

RangeInside(r, outer) == Le[outer.start, r.start] /\ Le[r.end, outer.end]
BoxInside(box, outer) == \A i \in 1..3 : RangeInside(Axes(box)[i], Axes(outer)[i])

AroundCalled == fn_out.done /\ fn_out.fn = "around"
BoxHitCalled == fn_out.done /\ fn_out.fn = "hit"

\* C21: around(a, b) is the smallest box that contains a and b, on every axis
\* from the smaller start to the larger end, and around a box and ZERO is
\* exactly that box.
C21_AroundIdentity ==
    AroundCalled =>
        /\ \A i \in 1..3 :
              /\ Axes(fn_out.box)[i].start = MinF[Axes(fn_in.a)[i].start, Axes(fn_in.b)[i].start]
              /\ Axes(fn_out.box)[i].end = MaxF[Axes(fn_in.a)[i].end, Axes(fn_in.b)[i].end]
        /\ BoxInside(fn_in.a, fn_out.box)
        /\ BoxInside(fn_in.b, fn_out.box)
        /\ \A c \in BoxPool :
              (BoxInside(fn_in.a, c) /\ BoxInside(fn_in.b, c)) => BoxInside(fn_out.box, c)
        /\ fn_in.a = ZERO => fn_out.box = fn_in.b
        /\ fn_in.b = ZERO => fn_out.box = fn_in.a

\* the parameters common to the three slabs and to the range of the query
CommonInterval(box, ray, range) ==
    [start |-> MaxF[MaxF[MaxF[range.start, SlabInterval(box, ray, 1).start],
                         SlabInterval(box, ray, 2).start],
                    SlabInterval(box, ray, 3).start],
     end |-> MinF[MinF[MinF[range.end, SlabInterval(box, ray, 1).end],
                       SlabInterval(box, ray, 2).end],
                  SlabInterval(box, ray, 3).end]]

\* C27: AxisAlignedBoundingBox::hit returns a hit exactly when the intervals
\* of the three slabs and the range of the query have parameters in common;
\* it misses when each slab overlaps the range but the three do not overlap.
C27_BoxHit ==
    BoxHitCalled =>
        (fn_out.hit.some <=>
            ~RangeIsEmpty(CommonInterval(fn_in.a, fn_in.ray, fn_in.range)))

AsRgbCalled == fn_out.done /\ fn_out.fn \in {"Vec3Ext::as_rgb", "Color::as_rgb"}

\* the channel is a number from 0.0 to 1.0
InUnitInterval(x) == IsFinite[x] /\ 0 <= x.n /\ x.n <= x.d

\* C22: as_rgb panics whenever a channel is outside [0.0, 1.0] and clamps
\* nothing; for a colour with every channel in [0.0, 1.0] it returns three
\* integers of 0..=255.
C22_LoudEncoding ==
    AsRgbCalled =>
        /\ fn_out.ret.panic <=> \E c \in 1..3 : ~InUnitInterval(fn_in.color[c])
        /\ ~fn_out.ret.panic => \A c \in 1..3 : fn_out.ret.rgb[c] \in 0..255

\* Vec3Ext::as_rgb has encoded a colour with the channels 0.0, 0.25 and 1.0,
\* the last one as 255
C22_Witness ==
    /\ fn_out.done
    /\ fn_out.fn = "Vec3Ext::as_rgb"
    /\ fn_in.color = <<I(0), Rat[1, 4], I(1)>>
    /\ fn_out.ret = Rgb(0, 128, 255)

\* the digits of k in the base, mirrored at the point: the numerator n over
\* the denominator d
RECURSIVE Mirrored(_, _, _, _)
Mirrored(base, k, n, d) ==
    IF k = 0 THEN Rat[n, d] ELSE Mirrored(base, k \div base, n * base + (k % base), d * base)

RadicalInverse(base, k) == Mirrored(base, k, 0, 1)

RECURSIVE IsPowerOf(_, _)
IsPowerOf(d, base) == d = 1 \/ (d % base = 0 /\ IsPowerOf(d \div base, base))

\* C30: halton_sequence(base, n) yields exactly n values, the k-th the radical
\* inverse of k in the base, from integers with 0 < n < d and d a power of
\* the base; every value is strictly between 0 and 1 and none repeats; the
\* table of 1024 * 1024 entries has an entry for every sample index of a pass.
C30_Halton ==
    /\ Len(halton.out) = halton.index
    /\ halton.index <= halton.sequence_length
    /\ halton.ended => Len(halton.out) = halton.sequence_length
    /\ halton.index >= 1 =>
           /\ 0 < halton.n /\ halton.n < halton.d
           /\ IsPowerOf(halton.d, halton.base)
    /\ \A k \in 1..Len(halton.out) :
           /\ halton.out[k] = RadicalInverse(halton.base, k)
           /\ Lt[I(0), halton.out[k]] /\ Lt[halton.out[k], I(1)]
           /\ \A j \in 1..Len(halton.out) : halton.out[j] = halton.out[k] => j = k
    /\ \A k \in 1..Len(num_samples_at_pass) : num_samples_at_pass[k] <= MostSamplesAtPass
    /\ SampleIndices(MostSamplesAtPass) \subseteq 0..(RngMapLen - 1)

\* the sequence of base 3 has ended after its longest run, the digits of
\* whose last index are more than one
C30_Witness ==
    /\ halton.ended
    /\ halton.base = 3
    /\ halton.sequence_length = MaxHaltonLen
    /\ Len(halton.out) >= 5
    /\ halton.out[5] = Rat[7, 9]

\* the arguments name a focus distance that is not positive
BadFocusDistance == Le[fn_in.focus_distance, I(0)]

\* C23: Camera::new called with a focus distance that is not positive reports
\* an error or panics, so get_ray is never called on a camera built from it.
C23_FailFast ==
    /\ (fn_out.done /\ fn_out.fn = "Camera::new" /\ BadFocusDistance) => fn_out.failed
    /\ (fn_out.done /\ fn_out.fn = "Camera::get_ray") => ~BadFocusDistance

CrossCalled == fn_out.done /\ fn_out.fn = "Vec3::cross"

\* the unit vector that follows u in the order x, y, z, x
NextAxis(u) == <<u[3], u[1], u[2]>>

\* the cross product of the unit vectors of two axes is right-handed
RightHanded ==
    (CrossCalled /\ ~fn_in.parallel) =>
        /\ (fn_in.self = <<1, 0, 0>> /\ fn_in.other = <<0, 1, 0>>) => fn_out.ret = <<0, 0, 1>>
        /\ fn_in.other = NextAxis(fn_in.self) => fn_out.ret = NextAxis(fn_in.other)
        /\ fn_in.self = NextAxis(fn_in.other) =>
               fn_out.ret = <<-NextAxis(fn_in.self)[1], -NextAxis(fn_in.self)[2],
                              -NextAxis(fn_in.self)[3]>>

\* C24 as stated: cross((1,0,0), (0,1,0)) = (0,0,1), and cross(v, k * v) is
\* the zero vector for every vector v and every scalar k.
C24_CrossParallel ==
    /\ RightHanded
    /\ (CrossCalled /\ fn_in.parallel) => fn_out.ret = <<0, 0, 0>>

\* no product of k * v and of cross(v, k * v) has more than 24 bits
ProductsExact ==
    \A i \in 1..3 :
        /\ Abs[fn_in.self[i] * fn_in.k] < 16777216
        /\ \A j \in 1..3 : Abs[fn_in.self[i] * fn_in.other[j]] < 16777216

\* C24: cross((1,0,0), (0,1,0)) = (0,0,1), and cross(v, k * v) is the zero
\* vector for every vector v and every scalar k, positive or negative, whose
\* products are computed without rounding.
C24_CrossParallelExact ==
    /\ RightHanded
    /\ (CrossCalled /\ fn_in.parallel /\ ProductsExact) => fn_out.ret = <<0, 0, 0>>

\* cross has returned the zero vector for a vector with three components
\* other than zero and a negative multiple of it
C24_Witness ==
    /\ CrossCalled
    /\ fn_in.parallel
    /\ fn_in.k < 0
    /\ \A i \in 1..3 : fn_in.self[i] # 0
    /\ ProductsExact
    /\ fn_out.ret = <<0, 0, 0>>

\* the work list names every pixel, and none twice
DuplicateFree ==
    /\ \A p \in Pixels : \E k \in 1..NumPixels : render_pixels[k] = p
    /\ \A k \in 1..NumPixels : \A l \in 1..NumPixels :
           render_pixels[k] = render_pixels[l] => k = l

\* for_each has returned and no work item of the pass observed the flag
CompletedUncancelled ==
    /\ pass >= 1
    /\ rt_pc # "for_each"
    /\ \A w \in Workers : ~w_item[w].saw

\* C25: the work list is a duplicate-free enumeration of the pixels; the work
\* items in flight own different pixels, a pixel is blended at most once in
\* a pass, and when a pass has completed without cancellation every pixel has
\* been blended exactly once in it and in each pass before it.
C25_ExactlyOnce ==
    /\ DuplicateFree
    /\ \A w \in Workers : \A v \in Workers \ {w} :
           (w_pc[w] # "idle" /\ w_pc[v] # "idle") => w_item[w].idx # w_item[v].idx
    /\ \A p \in Pixels : hist[p].done <= pass
    /\ \A w \in Workers : w_pc[w] # "idle" => hist[w_item[w].idx].done < pass
    /\ CompletedUncancelled => \A p \in Pixels : hist[p].done = pass

\* the last pass over a shuffled list has completed without cancellation and
\* has blended every pixel once more
C25_Witness ==
    /\ prog = "main"
    /\ render_pixels # IdentityList
    /\ pass = NumPasses
    /\ CompletedUncancelled
    /\ \A p \in Pixels : hist[p].done = NumPasses /\ stamp[4 * p] = NumPasses

\* the materials of the model
Materials == {Mirror, FuzzyMirror, Matte, Glass, Frosted, Bubble}

\* the running call of raycast has a hit to scatter
AtHit == rc_pc = "call" /\ TopHit.some

\* C26: scatter returns Some for every ray and intersection raycast hands to
\* a Lambertian, Metal or Dielectric material, no path ends absorbed, and a
\* path that has ended escaped to the sky or reached the depth limit.
C26_NeverAbsorbs ==
    /\ \A s \in 1..Len(rc_world) : rc_world[s].material \in Materials
    /\ \E hit \in {IF rc_pc = "call" THEN TopHit ELSE None} :
           hit.some => /\ Scatter(hit.material, Top.ray, hit) # {}
                       /\ \A out \in Scatter(hit.material, Top.ray, hit) : out.some
    /\ rc_log.end # "absorbed"
    /\ rc_pc \in {"ret", "done"} => rc_log.end \in {"escaped", "limit"}

\* a path went through the glass sphere, refracted on the way in and met the
\* inside of the sphere; it ended at the depth limit
C26_Witness ==
    /\ rc_pc = "done"
    /\ rc_world = <<SphereNew(Vec(0, 0, 0), I(5), Glass)>>
    /\ rc_log.primary.origin = Vec(-10, 0, 0)
    /\ rc_log.calls = 2
    /\ Len(rc_log.queries) = 3
    /\ rc_log.queries[2].t = I(10)
    /\ rc_log.end = "limit"

\* the byte of channel c of pixel p after pass 1, from pass 1's estimate alone
FirstPassByte(p, c) == AsRgbLinear(tape[p, 1][c] * num_samples_at_pass[1], num_samples_total[1])

\* C28: in the first pass new_samples equals total_samples; a work item of
\* the first pass reads the fill and computes from it and its estimate the
\* colour its estimate alone gives; a byte the first pass wrote holds that
\* colour, and a byte no pass has written holds the fill.
C28_FillWeightless ==
    /\ num_samples_at_pass[1] = num_samples_total[1]
    /\ \A w \in Workers : (InBlend(w) /\ w_item[w].pass = 1) =>
           /\ w_item[w].old = <<255, 255, 255>>
           /\ \A c \in 1..3 : w_item[w].rgb[c] = FirstPassByte(w_item[w].idx, c)
    /\ \A p \in Pixels : \A c \in 1..3 :
           /\ stamp[Base(p) + c - 1] = 1 => render_buffer[Base(p) + c - 1] = FirstPassByte(p, c)
           /\ stamp[Base(p) + c - 1] = 0 => render_buffer[Base(p) + c - 1] = 255

\* the first pass has written black over the fill of one pixel while another
\* pixel, not yet written, still shows the fill
C28_Witness ==
    \E p \in Pixels : \E q \in Pixels \ {p} :
        /\ pass = 1
        /\ \A c \in 1..3 : stamp[Base(p) + c - 1] = 1 /\ render_buffer[Base(p) + c - 1] = 0
        /\ \A c \in 1..3 : stamp[Base(q) + c - 1] = 0 /\ render_buffer[Base(q) + c - 1] = 255

\* the thread holds no guard of the buffer
HoldsNothing(t) == t \notin readers /\ writer # t

\* no thread asks for a lock while it holds one: a worker has dropped its
\* read guard before it asks for the write guard, and the redraw and the
\* file writer never hold the write lock
NoRequestWhileHolding ==
    /\ \A w \in Workers : w_pc[w] \in {"rdlock", "wrlock"} => HoldsNothing(w)
    /\ d_pc \in {"loop", "wt_lock"} => HoldsNothing(EvThread) /\ HoldsNothing(WtThread)
    /\ writer \in Workers \cup {0}
    /\ \A w \in Workers : w \in readers <=> w_pc[w] = "read"
    /\ \A w \in Workers : writer = w <=> w_pc[w] = "write"

\* C29: no thread requests the write lock while it holds the read lock, and
\* with the workers, the redraw and the file writer interleaved in any way
\* every request of a lock is granted in the end: a worker waiting for the
\* read lock reads, a worker waiting for the write lock writes, the file
\* writer waiting for the read lock copies, and the buffer is free for a
\* redraw again and again.
C29_NoDeadlock ==
    /\ []NoRequestWhileHolding
    /\ \A w \in Workers : (w_pc[w] = "rdlock") ~> (w_pc[w] = "read")
    /\ \A w \in Workers : (w_pc[w] = "wrlock") ~> (w_pc[w] = "write")
    /\ (d_pc = "wt_lock") ~> (d_pc = "wt_copy")
    /\ []<>(writer = 0)

\* a worker waits for the write lock while the other worker and the redraw
\* hold the read lock
C29_Witness ==
    \E w \in Workers : \E v \in Workers \ {w} :
        /\ w_pc[w] = "wrlock"
        /\ readers = {v, EvThread}
        /\ ~ENABLED WriteLock(w)

====
